---- MODULE Spec2Model ----
(***************************************************************************)
(* Verification model of the moscato glyph scaler (dfrg/pinot):            *)
(*   - the font metadata cache            (moscato/src/cache.rs)           *)
(*   - the hint program cache             (moscato/src/truetype/cache.rs)  *)
(*   - the contour decoder and path store (moscato/src/scaler.rs, glyph.rs)*)
(*   - the colour paint graph evaluator   (moscato/src/scaler.rs)          *)
(*   - the variation deltas               (src/var/item.rs, truetype/)     *)
(*   - the table directory and scaler data (src/container, moscato/data.rs)*)
(* Each component has its own specification over its own variables; the    *)
(* variables of the other components stay at their initial values.         *)
(***************************************************************************)
EXTENDS Integers, Sequences, FiniteSets, TLC

VARIABLES
    \* ---- font metadata cache (cache.rs: struct Cache) ----
    serial,         \* Cache.serial
    entries,        \* Cache.entries : sequence of [id, cached, serial]
    max_entries,    \* Cache.max_entries
    got,            \* observation of the last get() call
    calls,          \* number of get() calls made so far (history)
    stored,         \* history: id -> value stored by the most recent miss
    lastUse,        \* history: id -> number of the last get() asking for it
    \* ---- contour decoder / path store (scaler.rs, glyph.rs) ----
    outlines,       \* gid -> what truetype::scale::Scaler::scale yields
    scaled,         \* scaler.size != 0.
    glyph,          \* the output Glyph: points, verbs, paths, commands
    ret,            \* observation of the last Scaler::glyph / load_glyph call
    \* ---- hint program cache (truetype/cache.rs: struct Cache) ----
    fontdata,       \* font id -> the Data the caller passes for that font
    fonts,          \* Cache.fonts : sequence of FontEntry
    sizes,          \* Cache.sizes : sequence of SizeEntry
    epoch,          \* Cache.epoch
    hint_max_entries, \* Cache.max_entries of the hint cache
    uncached_font,  \* Cache.uncached_font
    uncached_size,  \* Cache.uncached_size
    prep,           \* observation of the last prepare() call
    hinted,         \* observation of the hint() call made with its slot
    twilight,       \* Cache.twilight: three equal parts, one mark each
    failed,         \* history: requests whose prepare() failed in a program
    \* ---- colour paint graph evaluator (scaler.rs: load_color) ----
    paints,         \* the COLR paint graph: node -> paint record
    cpal_len,       \* number of palettes the CPAL table yields
    palette,        \* palette_index passed to color_glyph
    stack,          \* active load_color calls: [node, depth, pc, i]
    lastret,        \* value returned by the load_color call that ended last
    color_ret,      \* "idle", "running", "Some", "None" or "panic"
    maxdepth,       \* history: deepest depth at which a node was interpreted
    ncalls,         \* history: number of load_color calls made so far
    capped,         \* history: a load_color call exceeded the depth cap
    \* ---- variation deltas (var/item.rs, truetype/data.rs) ----
    varin,          \* the font data and arguments of the call under test
    varout,         \* observation of the last variation call
    \* ---- table directory and scaler data (container/mod.rs, data.rs) ----
    tagdir,         \* the table directory: records [tag, offset, len]
    tagreq,         \* the tag passed to get_by_tag
    tag_lo,         \* lo of the search loop
    tag_hi,         \* hi of the search loop
    tagret,         \* "idle", "running", "Some" or "None"
    iters,          \* history: iterations of the search loop so far
    built           \* observation of the scalers built for the font

cacheVars == <<serial, entries, max_entries, got, calls, stored, lastUse>>

glyphVars == <<outlines, scaled, glyph, ret>>

hintVars == <<fontdata, fonts, sizes, epoch, hint_max_entries, uncached_font,
              uncached_size, prep, hinted, twilight, failed>>

colorVars == <<paints, cpal_len, palette, stack, lastret, color_ret, maxdepth,
               ncalls, capped>>

varVars == <<varin, varout>>

containerVars == <<tagdir, tagreq, tag_lo, tag_hi, tagret, iters, built>>

vars == <<cacheVars, glyphVars, hintVars, colorVars, varVars, containerVars>>

\* What each component leaves alone.
notCache == <<glyphVars, hintVars, colorVars, varVars, containerVars>>
notGlyph == <<cacheVars, hintVars, colorVars, varVars, containerVars>>
notHint == <<cacheVars, glyphVars, colorVars, varVars, containerVars>>
notColor == <<cacheVars, hintVars, varVars, containerVars>>
notVar == <<cacheVars, glyphVars, hintVars, colorVars, containerVars>>
notContainer == <<cacheVars, glyphVars, hintVars, colorVars, varVars>>

----------------------------------------------------------------------------
(* Bounds *)
NumIds == 3          \* font ids 1..NumIds
MaxEntries == 2      \* capacities 0..MaxEntries are explored
MaxCalls == 5        \* get() calls per behaviour
MaxPoints == 4       \* points of the outline under test
MaxPaths == 2        \* paths accumulated in one Glyph
NumHintIds == 2      \* font ids 1..NumHintIds handed to prepare()
MaxHintEntries == 2  \* hint cache capacities 0..MaxHintEntries
MaxPrepares == 3     \* prepare() calls per behaviour
NumNodes == 2        \* paint nodes 1..NumNodes of the graph under test
MaxWork == 80        \* graphs needing more load_color calls are left out
MaxRegions == 2      \* (region, value) pairs of one delta-set row
MaxTuples == 2       \* variation tuples applying to one glyph or cvt
NumTags == 4         \* table tags 1..NumTags, in tag order
MaxTables == 3       \* records of the table directory
MaxIters == 5        \* search loop iterations explored

Ids == 1..NumIds
NoId == 0

----------------------------------------------------------------------------
(* Font metadata cache                                                     *)

\* The fonts handed to get(): which tables the blob carries (a plain
\* TrueType font, a colour variable font, a blob without outline tables).
Fonts == {[glyf |-> TRUE, colr |-> FALSE, fvar |-> FALSE],
          [glyf |-> TRUE, colr |-> TRUE, fvar |-> TRUE],
          [glyf |-> FALSE, colr |-> FALSE, fvar |-> FALSE]}

\* data::Cached::new: table presence turned into the cached record.
Cached_new(font) ==
    [simple |-> IF font.glyf THEN "TrueType" ELSE "None",
     color  |-> IF font.colr THEN "Some" ELSE "None",
     var    |-> IF font.fvar THEN "Some" ELSE "None"]

NoCached == [simple |-> "None", color |-> "None", var |-> "None"]

\* The loop of Cache::find from entry i on (1-based), carrying
\* (lowest_index, lowest_serial); lowest_index is 0-based as in the code.
RECURSIVE find_loop(_, _, _, _, _)
find_loop(es, id, i, lowest_index, lowest_serial) ==
    IF i > Len(es) THEN <<FALSE, lowest_index>>
    ELSE IF es[i].id = id THEN <<TRUE, i - 1>>
    ELSE IF es[i].serial < lowest_serial
         THEN find_loop(es, id, i + 1, i - 1, es[i].serial)
         ELSE find_loop(es, id, i + 1, lowest_index, lowest_serial)

\* Cache::find: (found, index), index 0-based.
find(es, s, max, id) ==
    LET r == find_loop(es, id, 1, 0, s) IN
    IF r[1] THEN r
    ELSE IF Len(es) < max THEN <<FALSE, Len(es)>>
    ELSE <<FALSE, r[2]>>

\* The miss branch of Cache::get with the slot written wrongly: the id and
\* serial are replaced but the old cached value is kept.
store_keeps_value(es, index, e) ==
    IF index = Len(es) THEN Append(es, e)
    ELSE [es EXCEPT ![index + 1] = [e EXCEPT !.cached = es[index + 1].cached,
                                             !.stamp = es[index + 1].stamp]]

\* The miss branch of Cache::get: push a new entry or overwrite slot index.
store(es, index, e) ==
    IF index = Len(es) THEN Append(es, e)
    ELSE [es EXCEPT ![index + 1] = e]

\* The ids held by the cache that were requested least recently.
LruIds(es, lu) ==
    {es[i].id : i \in {j \in 1..Len(es) :
                        \A k \in 1..Len(es) : lu[es[j].id] <= lu[es[k].id]}}

\* Cache::get(font, id)
get(font, id) ==
    /\ calls < MaxCalls
    /\ calls' = calls + 1
    /\ lastUse' = [lastUse EXCEPT ![id] = calls + 1]
    /\ LET f == find(entries, serial, max_entries, id)
           found == f[1]
           index == f[2]
       IN IF found
          THEN /\ entries' = [entries EXCEPT ![index + 1].serial = serial]
               /\ serial' = serial
               /\ stored' = stored
               /\ got' = [kind |-> "hit", id |-> id,
                          value |-> entries[index + 1].cached,
                          stamp |-> entries[index + 1].stamp,
                          full |-> FALSE, evicted |-> NoId, lru |-> {},
                          written |-> serial, before |-> serial]
          ELSE LET cached == Cached_new(font)
                   e == [id |-> id, cached |-> cached, serial |-> serial + 1,
                         stamp |-> calls + 1]
               IN /\ serial' = serial + 1
                  /\ entries' = store(entries, index, e)
                  /\ stored' = [stored EXCEPT ![id] =
                                   [value |-> cached, stamp |-> calls + 1]]
                  /\ got' = [kind |-> "miss", id |-> id, value |-> cached,
                             stamp |-> calls + 1,
                             full |-> Len(entries) >= max_entries,
                             evicted |-> IF index = Len(entries) THEN NoId
                                         ELSE entries[index + 1].id,
                             lru |-> LruIds(entries, lastUse),
                             written |-> serial + 1, before |-> serial]
    /\ UNCHANGED <<max_entries, notCache>>

Get == \E font \in Fonts, id \in Ids : get(font, id)

\* Cache::new(max_entries)
InitCache ==
    /\ serial = 0
    /\ entries = << >>
    /\ max_entries \in 0..MaxEntries
    /\ got = [kind |-> "none", id |-> NoId, value |-> NoCached, stamp |-> 0,
              full |-> FALSE, evicted |-> NoId, lru |-> {},
              written |-> 0, before |-> 0]
    /\ calls = 0
    /\ stored = [i \in Ids |-> [value |-> NoCached, stamp |-> 0]]
    /\ lastUse = [i \in Ids |-> 0]

\* The cache as constructed and never used.
IdleCache ==
    /\ InitCache
    /\ max_entries = MaxEntries

----------------------------------------------------------------------------
(* Path store: glyph.rs                                                    *)

\* Glyph::default()
EmptyGlyph == [points |-> << >>, verbs |-> << >>, paths |-> << >>,
               commands |-> << >>]

\* PathBuilder::new: the builder is the glyph plus the open path's starts.
PathBuilder_new(inner) ==
    [inner |-> inner,
     path |-> [pstart |-> Len(inner.points), vstart |-> Len(inner.verbs)]]

push(b, ps, verb) ==
    [b EXCEPT !.inner.points = b.inner.points \o ps,
              !.inner.verbs = Append(b.inner.verbs, verb)]

\* PathBuilder::close
close(b) == [b EXCEPT !.inner.verbs = Append(b.inner.verbs, "Close")]

\* maybe_close closing whatever the path holds.
maybe_close_always(b) == close(b)

\* PathBuilder::maybe_close
maybe_close(b) ==
    IF /\ Len(b.inner.verbs) > b.path.vstart
       /\ b.inner.verbs[Len(b.inner.verbs)] # "Close"
    THEN close(b) ELSE b

\* PathBuilder::move_to
move_to(b, p) == push(maybe_close(b), <<p>>, "MoveTo")

\* PathBuilder::line_to
line_to(b, p) == push(b, <<p>>, "LineTo")

\* quad_to pushing the end point only.
quad_to_end_only(b, p0, p1) == push(b, <<p1>>, "QuadTo")

\* PathBuilder::quad_to
quad_to(b, p0, p1) == push(b, <<p0, p1>>, "QuadTo")

\* PathBuilder::curve_to
curve_to(b, p0, p1, p2) == push(b, <<p0, p1, p2>>, "CurveTo")

\* PathBuilder::finish (bounds are not modelled): half-open ranges.
finish(b) ==
    [b.inner EXCEPT !.paths = Append(b.inner.paths,
        [points |-> [start |-> b.path.pstart, end |-> Len(b.inner.points)],
         verbs |-> [start |-> b.path.vstart, end |-> Len(b.inner.verbs)]])]

----------------------------------------------------------------------------
(* Contour decoder: scaler.rs fill_outline                                 *)

CONIC == 0
ON == 1
CUBIC == 2
TAG_MASK == 4       \* tag & 0x3 is tag % 4

\* i32 division, truncating toward zero.
Div(a, b) == IF a >= 0 THEN a \div b ELSE -((-a) \div b)

PointI(x, y) == [x |-> x, y |-> y]

\* conv(p, s): s is 1/64 when scaled and 1 otherwise; the product is kept
\* as the exact fraction x/den.
conv(p, sc) == [x |-> p.x, y |-> p.y, den |-> IF sc THEN 64 ELSE 1]

\* Arrays are 0-based in the source.
At(seq, i) == seq[i + 1]
TagAt(tags, i) == At(tags, i) % TAG_MASK

\* The inner loop of the CONIC arm (lines 606-622). Yields the builder, cur,
\* the control point and how the loop ended: "on", "fail" or "end".
RECURSIVE conic_loop(_, _, _, _, _, _, _)
conic_loop(b, points, tags, sc, cur, last, v_control) ==
    IF ~(cur < last)
    THEN [how |-> "end", b |-> b, cur |-> cur, v_control |-> v_control]
    ELSE LET cur1 == cur + 1
             point == At(points, cur1)
             tag == TagAt(tags, cur1)
         IN IF tag = ON
            THEN [how |-> "on",
                  b |-> quad_to(b, conv(v_control, sc), conv(point, sc)),
                  cur |-> cur1, v_control |-> v_control]
            ELSE IF tag # CONIC
            THEN [how |-> "fail", b |-> b, cur |-> cur1,
                  v_control |-> v_control]
            ELSE LET v_middle == PointI(Div(v_control.x + point.x, 2),
                                        Div(v_control.y + point.y, 2))
                 IN conic_loop(quad_to(b, conv(v_control, sc),
                                       conv(v_middle, sc)),
                               points, tags, sc, cur1, last, point)

\* The loop `while cur < last` of one contour (lines 592-646). Yields
\* [ok, b]; ok is FALSE where the code returns None.
RECURSIVE contour_loop(_, _, _, _, _, _, _, _)
contour_loop(b, points, tags, sc, cur0, last, step_point, v_start) ==
    IF ~(cur0 < last) THEN [ok |-> TRUE, b |-> b]
    ELSE LET cur == IF step_point THEN cur0 + 1 ELSE cur0
             tag == TagAt(tags, cur)
         IN IF tag = ON
            THEN contour_loop(line_to(b, conv(At(points, cur), sc)),
                              points, tags, sc, cur, last, TRUE, v_start)
            ELSE IF tag = CONIC
            THEN LET r == conic_loop(b, points, tags, sc, cur, last,
                                     At(points, cur))
                 IN IF r.how = "fail" THEN [ok |-> FALSE, b |-> r.b]
                    ELSE IF r.how = "end"
                    THEN [ok |-> TRUE,
                          b |-> quad_to(r.b, conv(r.v_control, sc),
                                        conv(v_start, sc))]
                    ELSE contour_loop(r.b, points, tags, sc, r.cur, last,
                                      TRUE, v_start)
            ELSE IF cur + 1 > last \/ TagAt(tags, cur + 1) # CUBIC
                 THEN [ok |-> FALSE, b |-> b]
                 ELSE LET v1 == conv(At(points, cur), sc)
                          v2 == conv(At(points, cur + 1), sc)
                          cur2 == cur + 2
                      IN IF cur2 <= last
                         THEN contour_loop(
                                  curve_to(b, v1, v2,
                                           conv(At(points, cur2), sc)),
                                  points, tags, sc, cur2, last, TRUE, v_start)
                         ELSE [ok |-> TRUE,
                               b |-> curve_to(b, v1, v2, conv(v_start, sc))]

\* One iteration of `for c in 0..contours.len()` (lines 564-649), c 0-based.
contour(b, points, contours, tags, sc, c) ==
    LET cur == IF c > 0 THEN At(contours, c - 1) + 1 ELSE 0
        last0 == At(contours, c)
    IN IF last0 < cur \/ last0 >= Len(points) THEN [ok |-> FALSE, b |-> b]
       ELSE LET p_start == At(points, cur)
                v_last == At(points, last0)
                tag == TagAt(tags, cur)
            IN IF tag = CUBIC THEN [ok |-> FALSE, b |-> b]
               ELSE LET lastOn == tag = CONIC /\ TagAt(tags, last0) = ON
                        v_start ==
                            IF tag # CONIC THEN p_start
                            ELSE IF lastOn THEN v_last
                            ELSE PointI(Div(p_start.x + v_last.x, 2),
                                        Div(p_start.y + v_last.y, 2))
                        last == IF lastOn THEN last0 - 1 ELSE last0
                        step_point == tag # CONIC
                        r == contour_loop(move_to(b, conv(v_start, sc)),
                                          points, tags, sc, cur, last,
                                          step_point, v_start)
                    IN IF r.ok THEN [ok |-> TRUE, b |-> maybe_close(r.b)]
                       ELSE r

\* fill_outline: [ok, b]; ok = FALSE stands for None, and b is the builder
\* as the early return leaves it.
RECURSIVE fill_from(_, _, _, _, _, _)
fill_from(b, points, contours, tags, sc, c) ==
    IF c >= Len(contours) THEN [ok |-> TRUE, b |-> b]
    ELSE LET r == contour(b, points, contours, tags, sc, c)
         IN IF r.ok THEN fill_from(r.b, points, contours, tags, sc, c + 1)
            ELSE r

fill_outline(b, points, contours, tags, sc) ==
    fill_from(b, points, contours, tags, sc, 0)

----------------------------------------------------------------------------
(* Scaler::glyph, load_glyph, load_truetype                                *)

\* Coordinates of the points of the outline under test, by index.
PointTable == <<PointI(0, 0), PointI(3, -5), PointI(-7, 4), PointI(10, 1),
               PointI(-2, -9), PointI(5, 6)>>

\* Contour-end arrays tried for n points: one contour, two contours, an end
\* index past the points, and an end index before the contour's start.
ContourSets(n) ==
    {<<n - 1>>, <<n>>}
    \cup {<<k, n - 1>> : k \in 0..(n - 2)}
    \cup {<<n - 1, k>> : k \in 0..(n - 2)}

\* What truetype::scale::Scaler::scale leaves in scaled/contours/tags.
Outlines ==
    UNION {
        {[points |-> SubSeq(PointTable, 1, n), tags |-> t, contours |-> c] :
            t \in [1..n -> {CONIC, ON, CUBIC}], c \in ContourSets(n)} :
        n \in 1..MaxPoints}

\* A well formed outline: on, conic, on.
Triangle == [points |-> <<PointI(0, 0), PointI(4, 8), PointI(8, 0)>>,
             tags |-> <<ON, CONIC, ON>>, contours |-> <<2>>]

NoOutline == [points |-> << >>, tags |-> << >>, contours |-> << >>]

Gids == 0..2

\* load_truetype: [ok, glyph, decoded]; decoded is fill_outline's result.
load_truetype(gid, outline) ==
    IF outlines[gid] # NoOutline
    THEN LET builder == PathBuilder_new(outline)
             o == outlines[gid]
             r == fill_outline(builder, o.points, o.contours, o.tags, scaled)
         IN [ok |-> TRUE, glyph |-> finish(r.b), decoded |-> r.ok]
    ELSE [ok |-> FALSE, glyph |-> outline, decoded |-> TRUE]

\* load_glyph (the font has TrueType outlines)
load_glyph(gid, g) == load_truetype(gid, g)

\* Scaler::glyph(gid)
ScalerGlyph ==
    \E gid \in Gids :
        LET r == load_glyph(gid, EmptyGlyph) IN
        /\ glyph' = r.glyph
        /\ ret' = [op |-> "glyph", some |-> r.ok, decoded |-> r.decoded,
                   gid |-> gid]
        /\ UNCHANGED <<outlines, scaled, notGlyph>>

\* load_glyph called on a Glyph that is being filled (load_color's
\* Paint::Glyph arm calls it once per clip glyph).
LoadGlyph ==
    \E gid \in Gids :
        /\ Len(glyph.paths) < MaxPaths
        /\ ret.op # "glyph"
        /\ LET r == load_glyph(gid, glyph) IN
           /\ glyph' = r.glyph
           /\ ret' = [op |-> "load_glyph", some |-> r.ok,
                      decoded |-> r.decoded, gid |-> gid]
        /\ UNCHANGED <<outlines, scaled, notGlyph>>

InitGlyph ==
    /\ \E o \in Outlines :
          outlines = [g \in Gids |-> IF g = 0 THEN o
                                     ELSE IF g = 1 THEN Triangle
                                     ELSE NoOutline]
    /\ scaled \in BOOLEAN
    /\ glyph = EmptyGlyph
    /\ ret = [op |-> "none", some |-> FALSE, decoded |-> TRUE, gid |-> 0]

\* The scaler as built and never used.
IdleGlyph ==
    /\ outlines = [g \in Gids |-> NoOutline]
    /\ scaled = FALSE
    /\ glyph = EmptyGlyph
    /\ ret = [op |-> "none", some |-> FALSE, decoded |-> TRUE, gid |-> 0]
NextCache == Get

----------------------------------------------------------------------------
(* Hint program cache: truetype/cache.rs                                   *)

HintIds == 1..NumHintIds
None == 0           \* Option<u64>::None for font_id
Unc == -1           \* the index !0 that stands for the uncached entries

\* HinterState::default(): hinting is enabled until a program turns it off;
\* ran records whether the size program has been executed on the state.
DefaultHinterState == [hinting |-> TRUE, ran |-> FALSE]

\* FontEntry::default() and SizeEntry::default()
DefaultFontEntry == [font_id |-> 0, epoch |-> 0, defs |-> "empty"]
DefaultSizeEntry == [font_id |-> 0, epoch |-> 0, state |-> DefaultHinterState,
                     mode |-> "Default", coords |-> << >>, scale |-> 0]

\* The Data of a font as far as prepare() depends on it: the axis count and
\* what its font program and size program do when run.
FontProfiles ==
    {[axis_count |-> 0, fpgm_ok |-> TRUE, prep_ok |-> TRUE, prep_hinting |-> TRUE],
     [axis_count |-> 1, fpgm_ok |-> TRUE, prep_ok |-> TRUE, prep_hinting |-> TRUE],
     [axis_count |-> 1, fpgm_ok |-> TRUE, prep_ok |-> TRUE, prep_hinting |-> FALSE],
     [axis_count |-> 1, fpgm_ok |-> FALSE, prep_ok |-> TRUE, prep_hinting |-> TRUE],
     [axis_count |-> 0, fpgm_ok |-> TRUE, prep_ok |-> FALSE, prep_hinting |-> TRUE],
     [axis_count |-> 0, fpgm_ok |-> TRUE, prep_ok |-> FALSE, prep_hinting |-> FALSE]}

StaticFont == [axis_count |-> 0, fpgm_ok |-> TRUE, prep_ok |-> TRUE,
               prep_hinting |-> TRUE]

\* The coordinates Builder::variations leaves in Context.coords: empty when
\* it was not called or the font has no fvar, else one entry per axis.
CoordsFor(data) ==
    IF data.axis_count = 0 THEN {<< >>}
    ELSE {<< >>, <<0>>, <<8192>>}

\* (scale, mode) pairs requested.
SizeReqs == {<<65536, "Modern">>, <<32768, "Modern">>, <<65536, "Legacy">>}

\* Hinter::run_fpgm: whether the font program runs to its end.
run_fpgm(data) == data.fpgm_ok

\* Hinter::run_prep: [ok, state] for the state the size program leaves.
run_prep(data, mode, scale) ==
    [ok |-> data.prep_ok,
     state |-> [hinting |-> data.prep_hinting, ran |-> TRUE]]

\* HinterState::hinting_enabled
hinting_enabled(state) == state.hinting

\* A find_font loop that keeps lowest_index at the first entry.
find_font_loop_first(fs, font_id, i, lowest_index, lowest_epoch) ==
    IF \E k \in i..Len(fs) : fs[k].font_id = font_id
    THEN <<TRUE, (CHOOSE k \in i..Len(fs) : fs[k].font_id = font_id) - 1>>
    ELSE <<FALSE, lowest_index>>

\* The loop of find_font from entry i on; lowest_index is 0-based.
RECURSIVE find_font_loop(_, _, _, _, _)
find_font_loop(fs, font_id, i, lowest_index, lowest_epoch) ==
    IF i > Len(fs) THEN <<FALSE, lowest_index>>
    ELSE IF fs[i].font_id = font_id THEN <<TRUE, i - 1>>
    ELSE IF fs[i].epoch < lowest_epoch
         THEN find_font_loop(fs, font_id, i + 1, i - 1, fs[i].epoch)
         ELSE find_font_loop(fs, font_id, i + 1, lowest_index, lowest_epoch)

\* Cache::find_font: [found, index, fonts]; fonts is the pool after the
\* push of a default entry that a miss below capacity makes.
find_font(fs, ep, max, font_id) ==
    IF font_id = None THEN [found |-> FALSE, index |-> Unc, fonts |-> fs]
    ELSE LET r == find_font_loop(fs, font_id, 1, 0, ep) IN
         IF r[1] THEN [found |-> TRUE, index |-> r[2], fonts |-> fs]
         ELSE IF Len(fs) < max
         THEN [found |-> FALSE, index |-> Len(fs),
               fonts |-> Append(fs, DefaultFontEntry)]
         ELSE [found |-> FALSE, index |-> r[2], fonts |-> fs]

\* The key test of find_size (lines 274-277).
size_matches(size, font_id, coords, scale, mode) ==
    /\ size.font_id = font_id
    /\ size.scale = scale
    /\ size.mode = mode
    /\ (coords = << >> \/ coords = size.coords)

RECURSIVE find_size_loop(_, _, _, _, _, _, _, _)
find_size_loop(ss, font_id, coords, scale, mode, i, lowest_index, lowest_epoch) ==
    IF i > Len(ss) THEN <<FALSE, lowest_index>>
    ELSE LET lower == ss[i].epoch < lowest_epoch
             li == IF lower THEN i - 1 ELSE lowest_index
             le == IF lower THEN ss[i].epoch ELSE lowest_epoch
         IN IF size_matches(ss[i], font_id, coords, scale, mode)
            THEN <<TRUE, i - 1>>
            ELSE find_size_loop(ss, font_id, coords, scale, mode, i + 1,
                                li, le)

\* Cache::find_size: [found, index, sizes]
find_size(ss, ep, max, font_id, coords, scale, mode) ==
    IF font_id = None THEN [found |-> FALSE, index |-> Unc, sizes |-> ss]
    ELSE LET r == find_size_loop(ss, font_id, coords, scale, mode, 1, 0, ep)
         IN IF r[1] THEN [found |-> TRUE, index |-> r[2], sizes |-> ss]
            ELSE IF Len(ss) < max
            THEN [found |-> FALSE, index |-> Len(ss),
                  sizes |-> Append(ss, DefaultSizeEntry)]
            ELSE [found |-> FALSE, index |-> r[2], sizes |-> ss]

\* An index into a Vec that is out of bounds panics.
Oob(seq, index) == index = Unc \/ index >= Len(seq)

\* The font ids of the eviction runs, one more than the pools can hold, and
\* the prepare() calls explored: one more when only such fonts are used.
EvictIds == 1..(MaxHintEntries + 1)
PrepareLimit ==
    IF DOMAIN fontdata = EvictIds THEN MaxPrepares + 1 ELSE MaxPrepares

\* What identifies a size entry: the fields find_size compares.
SizeKey(size) == <<size.font_id, size.scale, size.mode, size.coords>>

\* The mark a program run for the size entry `key` leaves in the twilight
\* array that its zone calls `array`; the buffer starts as Point::default().
Mark(key, array) == [key |-> key, array |-> array]
Blank == <<Mark(<< >>, "default"), Mark(<< >>, "default"),
           Mark(<< >>, "default")>>

\* prepare() lines 104-115: the first part of Cache.twilight is the zone's
\* unscaled array, the second its original array, the third its points.
prepare_zone(key) ==
    <<Mark(key, "unscaled"), Mark(key, "original"), Mark(key, "points")>>

\* hint() lines 190-199: the first part is named twilight_original and the
\* second twilight_unscaled; Zone::new takes (unscaled, original, points).
hint_zone_read(tw) ==
    [unscaled |-> tw[2], original |-> tw[1], points |-> tw[3]]

hint_zone(key) ==
    <<Mark(key, "original"), Mark(key, "unscaled"), Mark(key, "points")>>

NoHint == [op |-> "none"]
NoPrep == [font_id |-> None, coords |-> << >>, scale |-> 0, mode |-> "Default",
           axis_count |-> 0, font_hit |-> FALSE, size_hit |-> FALSE,
           hit_coords |-> << >>, hit_ran |-> FALSE,
           fpgm_runs |-> 0, prep_runs |-> 0,
           result |-> "none", was_failed |-> FALSE, pools_kept |-> TRUE,
           font_index |-> Unc, size_index |-> Unc,
           font_full |-> FALSE, size_full |-> FALSE]

\* Cache::prepare(font_id, data, coords, ppem, scale, mode). result is
\* "Cached", "Uncached", "None" or "panic".
prepare(font_id, data, coords, scale, mode) ==
    LET epoch1 == epoch + 1
        key == <<font_id, data, coords, scale, mode>>
        \* lines 55-74
        ff == find_font(fonts, epoch1, hint_max_entries, font_id)
        newFont == [font_id |-> font_id, epoch |-> epoch1, defs |-> "empty"]
        fontPanic == ff.index # Unc /\ Oob(ff.fonts, ff.index)
        fonts1 == IF ff.found
                  THEN [ff.fonts EXCEPT ![ff.index + 1].epoch = epoch1]
                  ELSE IF ff.index = Unc THEN ff.fonts
                  ELSE [ff.fonts EXCEPT ![ff.index + 1] = newFont]
        ufont1 == IF ~ff.found /\ ff.index = Unc THEN newFont
                  ELSE uncached_font
        \* lines 75-98
        fz == find_size(sizes, epoch1, hint_max_entries, font_id, coords,
                        scale, mode)
        newSize == [font_id |-> font_id, epoch |-> epoch1,
                    state |-> DefaultHinterState, mode |-> mode,
                    coords |-> coords, scale |-> scale]
        sizePanic == fz.index # Unc /\ Oob(fz.sizes, fz.index)
        sizes1 == IF fz.found
                  THEN [fz.sizes EXCEPT ![fz.index + 1].epoch = epoch1]
                  ELSE IF fz.index = Unc THEN fz.sizes
                  ELSE [fz.sizes EXCEPT ![fz.index + 1] = newSize]
        usize1 == IF ~fz.found /\ fz.index = Unc THEN newSize
                  ELSE uncached_size
        do_fpgm == ~ff.found
        do_prep == ~fz.found
        \* lines 99-101: self.fonts[font_entry.1], self.sizes[size_entry.1]
        runPanic == (do_fpgm \/ do_prep)
                    /\ (Oob(fonts1, ff.index) \/ Oob(sizes1, fz.index))
        \* lines 127-132
        fpgm_ok == ~do_fpgm \/ run_fpgm(data)
        fonts2 == IF do_fpgm
                  THEN [fonts1 EXCEPT ![ff.index + 1].defs =
                            IF fpgm_ok THEN "fpgm" ELSE "partial"]
                  ELSE fonts1
        \* lines 133-145
        pr == run_prep(data, mode, scale)
        prep_ok == ~do_prep \/ pr.ok
        sizes2 == IF do_prep
                  THEN [sizes1 EXCEPT ![fz.index + 1].state = pr.state]
                  ELSE sizes1
        obs == [font_id |-> font_id, coords |-> coords, scale |-> scale,
                mode |-> mode, axis_count |-> data.axis_count,
                font_hit |-> ff.found, size_hit |-> fz.found,
                hit_coords |-> IF fz.found THEN sizes[fz.index + 1].coords
                               ELSE << >>,
                hit_ran |-> IF fz.found THEN sizes[fz.index + 1].state.ran
                            ELSE FALSE,
                fpgm_runs |-> 0, prep_runs |-> 0, result |-> "panic",
                was_failed |-> key \in failed, pools_kept |-> TRUE,
                font_index |-> ff.index, size_index |-> fz.index,
                font_full |-> Len(fonts) >= hint_max_entries,
                size_full |-> Len(sizes) >= hint_max_entries]
    IN
    /\ epoch < PrepareLimit
    /\ prep.result # "panic"
    /\ epoch' = epoch1
    /\ hinted' = NoHint
    /\ UNCHANGED <<fontdata, hint_max_entries, notHint>>
    /\ twilight' = IF (fontPanic \/ sizePanic \/ runPanic)
                      \/ ~(do_fpgm \/ do_prep)
                   THEN twilight
                   ELSE prepare_zone(SizeKey(sizes1[fz.index + 1]))
    /\ IF fontPanic
       THEN /\ fonts' = ff.fonts
            /\ UNCHANGED <<sizes, uncached_font, uncached_size, failed>>
            /\ prep' = [obs EXCEPT !.pools_kept = (ff.fonts = fonts)]
       ELSE IF sizePanic
       THEN /\ fonts' = fonts1
            /\ sizes' = fz.sizes
            /\ uncached_font' = ufont1
            /\ UNCHANGED <<uncached_size, failed>>
            /\ prep' = [obs EXCEPT !.pools_kept =
                            (fonts1 = fonts /\ fz.sizes = sizes)]
       ELSE IF runPanic
       THEN /\ fonts' = fonts1
            /\ sizes' = sizes1
            /\ uncached_font' = ufont1
            /\ uncached_size' = usize1
            /\ UNCHANGED failed
            /\ prep' = [obs EXCEPT !.pools_kept =
                            (fonts1 = fonts /\ sizes1 = sizes)]
       ELSE IF ~fpgm_ok
       THEN /\ fonts' = fonts2
            /\ sizes' = sizes1
            /\ uncached_font' = ufont1
            /\ uncached_size' = usize1
            /\ failed' = failed \cup {key}
            /\ prep' = [obs EXCEPT !.fpgm_runs = 1, !.result = "None",
                                   !.pools_kept =
                                       (fonts2 = fonts /\ sizes1 = sizes)]
       ELSE /\ fonts' = fonts2
            /\ sizes' = sizes2
            /\ uncached_font' = ufont1
            /\ uncached_size' = usize1
            /\ failed' = IF prep_ok THEN failed ELSE failed \cup {key}
            /\ prep' = [obs EXCEPT
                  !.fpgm_runs = IF do_fpgm THEN 1 ELSE 0,
                  !.prep_runs = IF do_prep THEN 1 ELSE 0,
                  !.pools_kept = (fonts2 = fonts /\ sizes2 = sizes),
                  !.result =
                      IF ~prep_ok THEN "None"
                      \* line 147: self.sizes[size_entry.1]
                      ELSE IF Oob(sizes2, fz.index) THEN "panic"
                      ELSE IF ~hinting_enabled(sizes2[fz.index + 1].state)
                      THEN "None"
                      ELSE IF ff.index # Unc THEN "Cached"
                      ELSE "Uncached"]

\* prepare() for a font that the caller identifies.
PrepareWithId ==
    \E font_id \in HintIds :
        \E coords \in CoordsFor(fontdata[font_id]), sm \in SizeReqs :
            prepare(font_id, fontdata[font_id], coords, sm[1], sm[2])

\* prepare() for an anonymous font (font_id = None).
PrepareAnonymous ==
    \E data \in {fontdata[i] : i \in HintIds} :
        \E coords \in CoordsFor(data), sm \in SizeReqs :
            prepare(None, data, coords, sm[1], sm[2])

\* prepare() without variations for fonts whose programs succeed.
PrepareStatic ==
    \E font_id \in EvictIds, sm \in SizeReqs :
        prepare(font_id, fontdata[font_id], << >>, sm[1], sm[2])

\* Contour-end arrays (absolute point indices, u16) of a glyph under
\* construction: a simple glyph, components of one and of several contours,
\* and a glyph whose last components lie at the top of the u16 range.
ContourArrays ==
    {<<2>>, <<0, 3>>, <<2, 5, 6>>, <<64999, 65002, 65535>>}

\* `*c -= point_base as u16` in release builds (wrapping).
u16_sub(c, point_base) == (c - (point_base % 65536)) % 65536
\* `*c += point_base as u16`
u16_add(c, point_base) == (c + (point_base % 65536)) % 65536

\* The loop over contours[contour_base..] before the VM runs.
rebase(cs, contour_base, point_base) ==
    [k \in 1..Len(cs) |-> IF k > contour_base
                          THEN u16_sub(cs[k], point_base) ELSE cs[k]]

\* hint() returning without the loop that adds point_base again.
rebase_back_forgotten(cs, contour_base, point_base) == cs

\* The loop over contours[contour_base..] after the VM ran.
rebase_back(cs, contour_base, point_base) ==
    [k \in 1..Len(cs) |-> IF k > contour_base
                          THEN u16_add(cs[k], point_base) ELSE cs[k]]

\* Cache::hint(data, coords, slot, .., contours, .., point_base,
\* contour_base, ins, is_composite) with the slot of the last prepare(). The
\* Zone borrows &contours[contour_base..], which the VM cannot write; a
\* debug build panics where the subtraction would wrap.
hint(cs, point_base, contour_base, is_composite) ==
    LET size == IF prep.result = "Uncached" THEN uncached_size
                ELSE sizes[prep.size_index + 1]
        shift == is_composite /\ point_base # 0
        during == IF shift THEN rebase(cs, contour_base, point_base) ELSE cs
        after == IF shift THEN rebase_back(during, contour_base, point_base)
                 ELSE during
    IN [op |-> "hint", before |-> cs, point_base |-> point_base,
        contour_base |-> contour_base, is_composite |-> is_composite,
        zone |-> SubSeq(during, contour_base + 1, Len(during)),
        entry |-> SizeKey(size),
        twilight |-> hint_zone_read(twilight),
        after |-> after,
        overflow |-> shift /\ \E k \in (contour_base + 1)..Len(cs) :
                                  cs[k] < (point_base % 65536)]

\* The sub-glyph starts at contour contour_base and at the point after the
\* end of the contour before it.
Hint ==
    /\ prep.result \in {"Cached", "Uncached"}
    /\ hinted.op = "none"
    /\ \E cs \in ContourArrays, is_composite \in BOOLEAN :
          \E contour_base \in 0..(Len(cs) - 1) :
             hinted' = hint(cs,
                            IF contour_base = 0 THEN 0
                            ELSE cs[contour_base] + 1,
                            contour_base, is_composite)
    /\ twilight' = hint_zone(hinted'.entry)
    /\ UNCHANGED <<fontdata, fonts, sizes, epoch, hint_max_entries,
                   uncached_font, uncached_size, prep, failed, notHint>>

\* prepare() for the first font only.
PrepareFirstFont ==
    \E coords \in CoordsFor(fontdata[1]), sm \in SizeReqs :
        prepare(1, fontdata[1], coords, sm[1], sm[2])

\* Cache::new(max_entries)
InitHintCache ==
    /\ fonts = << >>
    /\ sizes = << >>
    /\ epoch = 0
    /\ uncached_font = DefaultFontEntry
    /\ uncached_size = DefaultSizeEntry
    /\ prep = NoPrep
    /\ hinted = NoHint
    /\ twilight = Blank
    /\ failed = {}

InitHint ==
    /\ InitHintCache
    /\ hint_max_entries \in 0..MaxHintEntries
    /\ \E d \in FontProfiles :
          fontdata = [i \in HintIds |-> IF i = 1 THEN d ELSE StaticFont]

\* A cache of any capacity and one font more than the largest holds.
InitHintEvict ==
    /\ InitHintCache
    /\ hint_max_entries \in 0..MaxHintEntries
    /\ fontdata = [i \in EvictIds |-> StaticFont]

\* The hint cache as constructed and never used.
IdleHint ==
    /\ InitHintCache
    /\ hint_max_entries = MaxHintEntries
    /\ fontdata = [i \in HintIds |-> StaticFont]

----------------------------------------------------------------------------
(* Colour paint graph evaluator: scaler.rs load_color                      *)

MaxDepth == 32      \* the recursion cap of load_color

Nodes == 1..NumNodes
NoPaint == 0        \* a PaintRef / layer / base paint that yields None

\* Child references tried for node i: none, the base paint, the next node.
Refs(i) == {NoPaint, 1} \cup ({i + 1} \cap Nodes)

\* Paint records after flatten_transform: every transform variant has
\* become Transform. "Fill" stands for Solid, LinearGradient and
\* RadialGradient; SweepGradient is the one variant load_color has no arm
\* for.
PaintsAt(i) ==
    {[kind |-> "Fill"], [kind |-> "SweepGradient"]}
    \cup {[kind |-> "ColorGlyph", paint |-> r] : r \in Refs(i)}
    \cup {[kind |-> "Transform", paint |-> r] : r \in Refs(i)}
    \cup {[kind |-> "Glyph", paint |-> r, id |-> 1] : r \in Refs(i)}
    \cup {[kind |-> "Glyph", paint |-> NoPaint, id |-> 2]}
    \cup {[kind |-> "Composite", source |-> a, backdrop |-> b] :
            a \in Refs(i), b \in Refs(i)}
    \cup {[kind |-> "Layers", layers |-> <<a, b>>] :
            a \in Refs(i), b \in Refs(i)}

\* The children a paint recurses into, in order.
Children(p) ==
    CASE p.kind \in {"ColorGlyph", "Transform", "Glyph"} ->
            IF p.paint = NoPaint THEN << >> ELSE <<p.paint>>
      [] p.kind = "Composite" ->
            IF p.source = NoPaint \/ p.backdrop = NoPaint THEN << >>
            ELSE <<p.backdrop, p.source>>
      [] p.kind = "Layers" -> SelectSeq(p.layers, LAMBDA r : r # NoPaint)
      [] OTHER -> << >>

Min(a, b) == IF a < b THEN a ELSE b

RECURSIVE SumCapped(_, _)
SumCapped(f, cs) ==
    IF cs = << >> THEN 0
    ELSE Min(MaxWork + 1, f[Head(cs)] + SumCapped(f, Tail(cs)))

\* From f, the number of load_color calls made by a call on each node at
\* depth d + 1 (itself included, cut off at MaxWork + 1), the same numbers
\* for the nodes 1..k at depth d.
RECURSIVE WorkLevel(_, _, _)
WorkLevel(g, f, k) ==
    IF k = 0 THEN << >>
    ELSE Append(WorkLevel(g, f, k - 1),
                Min(MaxWork + 1, 1 + SumCapped(f, Children(g[k]))))

RECURSIVE WorkDown(_, _, _)
WorkDown(g, f, d) ==
    IF d < 0 THEN f
    ELSE LET up == WorkLevel(g, f, NumNodes)
         IN IF Len(up) = NumNodes THEN WorkDown(g, up, d - 1) ELSE up

\* The number of load_color calls color_glyph makes on the graph g: a call
\* below the cap returns at once and counts 1.
Work(g) == WorkDown(g, [n \in Nodes |-> 1], MaxDepth)[1]

RECURSIVE ReachFrom(_, _)
ReachFrom(g, set) ==
    LET more == set \cup UNION {{Children(g[n])[k] :
                                   k \in 1..Len(Children(g[n]))} : n \in set}
    IN IF more = set THEN set ELSE ReachFrom(g, more)

\* The paint graphs under test: every node not reachable from the base
\* paint is a plain fill, and the evaluation takes at most MaxWork calls.
Graphs ==
    {g \in [Nodes -> UNION {PaintsAt(i) : i \in Nodes}] :
        /\ \A i \in Nodes : g[i] \in PaintsAt(i)
        /\ \A i \in Nodes \ ReachFrom(g, {1}) : g[i] = [kind |-> "Fill"]
        /\ Work(g) <= MaxWork}

\* The depth test that opens load_color, one level late.
too_deep_late(depth) == depth > MaxDepth + 1

\* `if depth > 32 { return false; }`
too_deep(depth) == depth > MaxDepth

\* Cpal::get(index).is_some()
cpal_get(index) == index < cpal_len

\* cpal.get(palette).or_else(|| cpal.get(0)) is Some
pal_resolves == cpal_get(palette) \/ cpal_get(0)

Top == stack[Len(stack)]

Frame(node, depth) == [node |-> node, depth |-> depth, pc |-> "call", i |-> 0]

\* The top call passed the depth test and the palette lookup and is about
\* to be matched on its paint.
Entering(kind) ==
    /\ color_ret = "running"
    /\ stack # << >>
    /\ Top.pc = "call"
    /\ ~too_deep(Top.depth)
    /\ pal_resolves
    /\ paints[Top.node].kind = kind

Resuming(kind, pc) ==
    /\ color_ret = "running"
    /\ stack # << >>
    /\ Top.pc = pc
    /\ paints[Top.node].kind = kind

Interpreted ==
    /\ maxdepth' = IF Top.depth > maxdepth THEN Top.depth ELSE maxdepth
    /\ capped' = capped

\* The top call returns v; the outermost return ends color_glyph.
Return(v) ==
    /\ stack' = SubSeq(stack, 1, Len(stack) - 1)
    /\ lastret' = v
    /\ color_ret' = IF Len(stack) = 1 THEN (IF v THEN "Some" ELSE "None")
                    ELSE color_ret
    /\ ncalls' = ncalls

\* The top call moves to pc and calls load_color on child at depth + 1.
Call(pc, i, child) ==
    /\ stack' = Append([stack EXCEPT ![Len(stack)].pc = pc,
                                     ![Len(stack)].i = i],
                       Frame(child, Top.depth + 1))
    /\ ncalls' = ncalls + 1
    /\ UNCHANGED <<lastret, color_ret>>

\* A Command: its variant and, for PushClip, the path index.
Command(op, arg) == [op |-> op, arg |-> arg]

Commands(ops) == [k \in 1..Len(ops) |-> Command(ops[k], 0)]

\* glyph.push_command for each of ops.
Emit(ops) ==
    glyph' = [glyph EXCEPT !.commands = glyph.commands \o Commands(ops)]

colorFixed == <<paints, cpal_len, palette, outlines, scaled, ret, notColor>>

\* PopTransform pushed only when the child paint reported success.
pop_transform_if_ok(child_ok) ==
    IF child_ok THEN <<"PopTransform">> ELSE << >>

\* Line 233: the command pushed after the child of a Transform returned.
pop_transform(child_ok) == <<"PopTransform">>

\* Scaler::color_glyph(palette_index, gid): gid 0 has the base paint 1,
\* gid 1 has none.
ColorGlyph ==
    /\ color_ret = "idle"
    /\ \E gid \in 0..1 :
          IF gid = 0
          THEN /\ color_ret' = "running"
               /\ stack' = <<Frame(1, 0)>>
               /\ ncalls' = 1
          ELSE /\ color_ret' = "None"
               /\ stack' = << >>
               /\ ncalls' = 0
    /\ glyph' = EmptyGlyph
    /\ capped' = FALSE
    /\ UNCHANGED <<lastret, maxdepth, colorFixed>>

\* Lines 179-181: the call is deeper than the cap.
DepthCap ==
    /\ color_ret = "running"
    /\ stack # << >>
    /\ Top.pc = "call"
    /\ too_deep(Top.depth)
    /\ Return(FALSE)
    /\ capped' = TRUE
    /\ UNCHANGED <<glyph, maxdepth, colorFixed>>

\* Line 188: unwrap() of a palette that is not there.
PalettePanic ==
    /\ color_ret = "running"
    /\ stack # << >>
    /\ Top.pc = "call"
    /\ ~too_deep(Top.depth)
    /\ ~pal_resolves
    /\ color_ret' = "panic"
    /\ UNCHANGED <<stack, lastret, glyph, maxdepth, ncalls, capped, colorFixed>>

\* Lines 250-307: Solid, LinearGradient, RadialGradient.
PaintFill ==
    /\ Entering("Fill")
    /\ Interpreted
    /\ Emit(<<"Fill">>)
    /\ Return(TRUE)
    /\ UNCHANGED colorFixed

\* Line 308: any other paint, which is SweepGradient.
PaintOther ==
    /\ Entering("SweepGradient")
    /\ Interpreted
    /\ Return(TRUE)
    /\ UNCHANGED <<glyph, colorFixed>>

\* Lines 196-202: one turn of the loop over the layers.
PaintLayers ==
    /\ \/ Entering("Layers") /\ Interpreted
       \/ Resuming("Layers", "layer") /\ UNCHANGED <<maxdepth, capped>>
    /\ LET layers == paints[Top.node].layers IN
       IF Top.i >= Len(layers) THEN Return(TRUE)
       ELSE IF layers[Top.i + 1] = NoPaint
       THEN /\ stack' = [stack EXCEPT ![Len(stack)].pc = "layer",
                                      ![Len(stack)].i = Top.i + 1]
            /\ UNCHANGED <<lastret, color_ret, ncalls>>
       ELSE Call("layer", Top.i + 1, layers[Top.i + 1])
    /\ UNCHANGED <<glyph, colorFixed>>

\* Lines 203-209: load the clip glyph, push the clip, enter the child.
PaintGlyph ==
    /\ Entering("Glyph")
    /\ Interpreted
    /\ LET p == paints[Top.node]
           path_index == Len(glyph.paths)
           r == load_glyph(p.id, glyph)
       IN IF r.ok
          THEN IF p.paint # NoPaint
               THEN /\ glyph' = [r.glyph EXCEPT !.commands =
                                    Append(r.glyph.commands,
                                           Command("PushClip", path_index))]
                    /\ Call("pop", 0, p.paint)
               ELSE /\ glyph' = [r.glyph EXCEPT !.commands =
                                    r.glyph.commands \o
                                    <<Command("PushClip", path_index),
                                      Command("PopClip", 0)>>]
                    /\ Return(TRUE)
          ELSE /\ glyph' = r.glyph
               /\ Return(TRUE)
    /\ UNCHANGED colorFixed

\* Line 210: the child of a Glyph paint returned.
PaintGlyphEnd ==
    /\ Resuming("Glyph", "pop")
    /\ Emit(<<"PopClip">>)
    /\ Return(TRUE)
    /\ UNCHANGED <<maxdepth, capped, colorFixed>>

\* Lines 213-217.
PaintColorGlyph ==
    /\ Entering("ColorGlyph")
    /\ Interpreted
    /\ IF paints[Top.node].paint # NoPaint
       THEN Call("ret", 0, paints[Top.node].paint)
       ELSE Return(TRUE)
    /\ UNCHANGED <<glyph, colorFixed>>

PaintColorGlyphEnd ==
    /\ Resuming("ColorGlyph", "ret")
    /\ Return(TRUE)
    /\ UNCHANGED <<glyph, maxdepth, capped, colorFixed>>

\* Lines 218-232.
PaintTransform ==
    /\ Entering("Transform")
    /\ Interpreted
    /\ IF paints[Top.node].paint # NoPaint
       THEN /\ Emit(<<"PushTransform">>)
            /\ Call("pop", 0, paints[Top.node].paint)
       ELSE /\ Return(TRUE)
            /\ UNCHANGED glyph
    /\ UNCHANGED colorFixed

\* Line 233.
PaintTransformEnd ==
    /\ Resuming("Transform", "pop")
    /\ Emit(pop_transform(lastret))
    /\ Return(TRUE)
    /\ UNCHANGED <<maxdepth, capped, colorFixed>>

\* Lines 236-243.
PaintComposite ==
    /\ Entering("Composite")
    /\ Interpreted
    /\ LET p == paints[Top.node] IN
       IF p.source # NoPaint /\ p.backdrop # NoPaint
       THEN /\ Emit(<<"PushLayer">>)
            /\ Call("blend", 0, p.backdrop)
       ELSE /\ Return(TRUE)
            /\ UNCHANGED glyph
    /\ UNCHANGED colorFixed

\* Lines 244-245.
PaintCompositeBlend ==
    /\ Resuming("Composite", "blend")
    /\ Emit(<<"BeginBlend">>)
    /\ Call("end", 0, paints[Top.node].source)
    /\ UNCHANGED <<maxdepth, capped, colorFixed>>

\* Lines 246-247.
PaintCompositeEnd ==
    /\ Resuming("Composite", "end")
    /\ Emit(<<"EndBlend", "PopLayer">>)
    /\ Return(TRUE)
    /\ UNCHANGED <<maxdepth, capped, colorFixed>>

\* The palette requests tried: the first palette, an absent palette that
\* falls back to the first, and a table without palettes.
PaletteCases == {<<1, 0>>, <<1, 1>>, <<0, 0>>}

InitColor ==
    /\ paints \in Graphs
    /\ \E pc \in PaletteCases : cpal_len = pc[1] /\ palette = pc[2]
    /\ stack = << >>
    /\ lastret = TRUE
    /\ color_ret = "idle"
    /\ maxdepth = 0
    /\ ncalls = 0
    /\ capped = FALSE
    /\ outlines = [g \in Gids |-> IF g = 2 THEN NoOutline ELSE Triangle]
    /\ scaled = TRUE
    /\ glyph = EmptyGlyph
    /\ ret = [op |-> "none", some |-> FALSE, decoded |-> TRUE, gid |-> 0]

\* The evaluator never started.
IdleColor ==
    /\ paints = [n \in Nodes |-> [kind |-> "Fill"]]
    /\ cpal_len = 1
    /\ palette = 0
    /\ stack = << >>
    /\ lastret = TRUE
    /\ color_ret = "idle"
    /\ maxdepth = 0
    /\ ncalls = 0
    /\ capped = FALSE

----------------------------------------------------------------------------
(* 16.16 fixed point: container/types.rs                                   *)

\* Values are i32, as the integers of the checker are: the wrapping_add
\* and `as i32` of the source never wrap on the inputs explored (an
\* overflow would stop the check).
Hi16(x) == x \div 65536          \* x >> 16, arithmetic
Lo16(x) == x % 65536             \* x & 0xFFFF

\* (a * b + c) >> 16 for 0 <= c < 65536, in steps that stay inside the
\* integers the checker computes with: a = ah * 2^16 + al, b likewise, and
\* al = a1 * 2^8 + a0.
MulShr16(a, b, c) ==
    LET a1 == Lo16(a) \div 256
        a0 == Lo16(a) % 256
        low == ((a1 * Lo16(b)) + (((a0 * Lo16(b)) + c) \div 256)) \div 256
    IN (Hi16(a) * Hi16(b) * 65536) + (Hi16(a) * Lo16(b))
       + (Lo16(a) * Hi16(b)) + low

\* ops::mul: ((ab + 0x8000 - (ab < 0)) >> 16) as i32
mul(a, b) ==
    LET neg == (a < 0 /\ b > 0) \/ (a > 0 /\ b < 0)
    IN MulShr16(a, b, IF neg THEN 32767 ELSE 32768)

\* ((a << 16) + (b >> 1)) / b for a >= 0 and b > 0, eight bits at a time.
DivShl16(a, b) ==
    LET ra == a % b
        q1 == (ra * 256) \div b
        r1 == (ra * 256) % b
    IN ((a \div b) * 65536) + (q1 * 256) + (((r1 * 256) + (b \div 2)) \div b)

\* ops::div
div(a, b) ==
    LET ua == IF a < 0 THEN -a ELSE a
        ub == IF b < 0 THEN -b ELSE b
        negative == (a < 0) # (b < 0)
        q == IF ub = 0 THEN 2147483647 ELSE DivShl16(ua, ub)
    IN IF negative THEN -q ELSE q

Fixed_ZERO == 0
Fixed_ONE == 65536
Fixed_from_i32(x) == x * 65536
Fixed_from_f2dot14(x) == x * 4
Fixed_add(a, b) == a + b
Fixed_sub(a, b) == a - b
\* Fixed::round: ((x as u32 + 0x8000) & 0xFFFF0000) as i32
Fixed_round(x) ==
    (x + 32768) - ((x + 32768) % 65536)
\* Fixed::to_i32: (x + 0x8000) >> 16
Fixed_to_i32(x) == Hi16(x + 32768)

----------------------------------------------------------------------------
(* Item variation store: var/item.rs; metrics: truetype/data.rs            *)

\* Per-axis (start, peak, end) triples in 2.14: a tent on the positive side,
\* one on the negative side, a peak of zero, a region that starts after its
\* peak, a region away from zero.
AxisCoords ==
    {[start |-> 0, peak |-> 16384, end |-> 16384],
     [start |-> -16384, peak |-> -8192, end |-> 0],
     [start |-> 0, peak |-> 0, end |-> 0],
     [start |-> 16384, peak |-> 8192, end |-> 16384],
     [start |-> 8192, peak |-> 16384, end |-> 16384]}

\* Normalized coordinate vectors passed by the caller (2.14).
CoordVectors == {<<0>>, <<0, 0>>, <<16384, -16384>>, <<4096, 0>>}

\* The loop body of Region::compute_scalar from axis i (1-based) on.
RECURSIVE scalar_from(_, _, _, _)
scalar_from(axes, coords, i, scalar) ==
    IF i > Len(axes) THEN scalar
    ELSE LET coord == IF i <= Len(coords) THEN coords[i] ELSE 0
             start == axes[i].start
             end == axes[i].end
             peak == axes[i].peak
         IN IF start > peak \/ peak > end \/ peak = 0
               \/ (start < 0 /\ end > 0)
            THEN scalar_from(axes, coords, i + 1, scalar)
            ELSE IF coord < start \/ coord > end THEN Fixed_ZERO
            ELSE IF coord = peak
            THEN scalar_from(axes, coords, i + 1, scalar)
            ELSE LET fc == Fixed_from_f2dot14(coord)
                     fs == Fixed_from_f2dot14(start)
                     fe == Fixed_from_f2dot14(end)
                     fp == Fixed_from_f2dot14(peak)
                 IN scalar_from(axes, coords, i + 1,
                        IF fc < fp
                        THEN div(mul(scalar, Fixed_sub(fc, fs)),
                                 Fixed_sub(fp, fs))
                        ELSE div(mul(scalar, Fixed_sub(fe, fc)),
                                 Fixed_sub(fe, fp)))

\* A region whose scalar is one at every coordinate.
compute_scalar_one(region, coords) == Fixed_ONE

\* Region::compute_scalar
compute_scalar(region, coords) == scalar_from(region, coords, 1, Fixed_ONE)

\* ItemVariationStore::delta over the (region, value) pairs of one row,
\* from pair k on; Deltas::next has made each value a Fixed.
RECURSIVE delta_from(_, _, _, _)
delta_from(row, coords, k, delta) ==
    IF k > Len(row) THEN delta
    ELSE delta_from(row, coords, k + 1,
             Fixed_add(delta,
                       mul(Fixed_from_i32(row[k].value),
                           compute_scalar(row[k].region, coords))))

ItemVariationStore_delta(row, coords) == delta_from(row, coords, 1, Fixed_ZERO)

\* Data::advance_width once hmtx gave the advance.
advance_width(advance, hvar, row, coords) ==
    IF coords # << >> /\ hvar
    THEN Fixed_to_i32(Fixed_add(Fixed_from_i32(advance),
                                ItemVariationStore_delta(row, coords)))
    ELSE advance

\* Inputs of the metric query: a font of one axis or two, a delta-set row
\* of up to MaxRegions regions, the hmtx advance and the coordinates.
Regions ==
    [1..1 -> AxisCoords] \cup {r \in [1..2 -> AxisCoords] : r[2].start = 0}
DeltaValues == <<3, -7, 5, -2, 9>>
Rows ==
    UNION {{[k \in 1..n |-> [region |-> rs[k], value |-> DeltaValues[k]]] :
               rs \in [1..n -> Regions]} : n \in 0..MaxRegions}

NoVarOut == [op |-> "none", value |-> 0, delta |-> 0]

MetricInputs ==
    [kind : {"metric"}, advance : {500}, row : Rows, coords : CoordVectors]

\* Data::advance_width(gid, coords)
AdvanceWidth ==
    /\ varin.kind = "metric"
    /\ varout.op = "none"
    /\ varout' = [op |-> "advance_width",
                  value |-> advance_width(varin.advance, TRUE, varin.row,
                                          varin.coords),
                  delta |-> ItemVariationStore_delta(varin.row, varin.coords)]
    /\ UNCHANGED <<varin, notVar>>

----------------------------------------------------------------------------
(* Outline, component and control-value deltas: truetype/data.rs           *)

PointZero == [x |-> 0, y |-> 0]

\* seq with the 0-based index i replaced by v.
SetAt(seq, i, v) == [seq EXCEPT ![i + 1] = v]

\* The value interpolate() stores for point p on one axis ax ("x" or "y"):
\* the references ordered by coordinate, the common delta (or 0) when their
\* coordinates are equal, the nearer reference's delta outside them, and
\* the weighted mean between them.
interpolate_axis(p, ref1, ref2, points, ds, ax) ==
    LET swap == At(points, ref1)[ax] > At(points, ref2)[ax]
        r1 == IF swap THEN ref2 ELSE ref1
        r2 == IF swap THEN ref1 ELSE ref2
        in1 == Fixed_from_i32(At(points, r1)[ax])
        in2 == Fixed_from_i32(At(points, r2)[ax])
        out1 == At(ds, r1)[ax]
        out2 == At(ds, r2)[ax]
        t == Fixed_from_i32(At(points, p)[ax])
    IN IF in1 = in2 THEN (IF out1 = out2 THEN out1 ELSE 0)
       ELSE IF t <= in1 THEN out1
       ELSE IF t >= in2 THEN out2
       ELSE LET f == div(Fixed_sub(t, in1), Fixed_sub(in2, in1))
            IN Fixed_add(mul(Fixed_sub(Fixed_ONE, f), out1), mul(f, out2))

\* The one element of a singleton set.
The(S) == CHOOSE v \in S : TRUE

\* interpolate() without its second half ("Repeat for y").
interpolate_x_only(p1, p2, ref1, ref2, points, ds) ==
    IF p1 > p2 THEN ds
    ELSE The({[k \in 1..Len(d) |->
                  IF p1 <= k - 1 /\ k - 1 <= p2
                  THEN [x |-> interpolate_axis(k - 1, ref1, ref2, points,
                                               d, "x"),
                        y |-> d[k].y]
                  ELSE d[k]] : d \in {ds}})

\* interpolate(p1, p2, ref1, ref2, points, deltas): the x pass writes the
\* x of p1..=p2 and the y pass their y, each reading only the references,
\* which lie outside p1..=p2; d is the buffer on entry.
interpolate(p1, p2, ref1, ref2, points, ds) ==
    IF p1 > p2 THEN ds
    ELSE The({[k \in 1..Len(d) |->
                  IF p1 <= k - 1 /\ k - 1 <= p2
                  THEN [x |-> interpolate_axis(k - 1, ref1, ref2, points,
                                               d, "x"),
                        y |-> interpolate_axis(k - 1, ref1, ref2, points,
                                               d, "y")]
                  ELSE d[k]] : d \in {ds}})

\* The loop `while idx <= end` of Data::deltas over one contour: every
\* touched point found closes the gap since the touched point before it.
RECURSIVE iup_scan(_, _, _, _, _, _)
iup_scan(idx, end, cur_delta, touched, points, accum) ==
    IF idx > end THEN [cur_delta |-> cur_delta, accum |-> accum]
    ELSE IF idx \in touched
    THEN iup_scan(idx + 1, end, idx, touched, points,
                  interpolate(cur_delta + 1, idx - 1, cur_delta, idx,
                              points, accum))
    ELSE iup_scan(idx + 1, end, cur_delta, touched, points, accum)

\* The search for the first touched point taking the contour's first point.
first_touched_start(idx, end, touched) == idx

\* First touched index in idx..end, or end + 1.
RECURSIVE first_touched(_, _, _)
first_touched(idx, end, touched) ==
    IF idx <= end /\ idx \notin touched
    THEN first_touched(idx + 1, end, touched) ELSE idx

\* The body of `for end in contours.iter()` for the contour start..=end.
iup_contour(start, end, len, touched, points, accum) ==
    IF start >= len \/ end >= len THEN accum
    ELSE LET first_delta == first_touched(start, end, touched)
         IN IF first_delta > end THEN accum
            ELSE LET r == iup_scan(first_delta + 1, end, first_delta,
                                   touched, points, accum)
                 IN IF r.cur_delta = first_delta
                    THEN [k \in 1..Len(accum) |->
                             IF start <= k - 1 /\ k - 1 <= end
                             THEN At(r.accum, r.cur_delta) ELSE r.accum[k]]
                    ELSE LET a1 == interpolate(r.cur_delta + 1, end,
                                       r.cur_delta, first_delta, points,
                                       r.accum)
                         IN IF first_delta > 0
                            THEN interpolate(start, first_delta - 1,
                                     r.cur_delta, first_delta, points, a1)
                            ELSE a1

RECURSIVE iup_contours(_, _, _, _, _, _)
iup_contours(c, next_start, contours, touched, points, accum) ==
    IF c >= Len(contours) THEN accum
    ELSE iup_contours(c + 1, At(contours, c) + 1, contours, touched, points,
             iup_contour(next_start, At(contours, c), Len(points), touched,
                         points, accum))

\* Adding the (index, x, y) entries of a tuple, from entry k on, to ds.
RECURSIVE add_entries(_, _, _)
add_entries(es, k, ds) ==
    IF k > Len(es) THEN ds
    ELSE LET e == es[k]
         IN add_entries(es, k + 1,
                IF e.index < Len(ds)
                THEN SetAt(ds, e.index,
                           [x |-> At(ds, e.index).x + e.x,
                            y |-> At(ds, e.index).y + e.y])
                ELSE ds)

Zeros(n) == [k \in 1..n |-> PointZero]

\* The accum buffer after one tuple without full coverage.
tuple_accum(tuple, points, contours) ==
    iup_contours(0, 0, contours,
                 {tuple.entries[k].index : k \in 1..Len(tuple.entries)}
                     \cap 0..(Len(points) - 1),
                 points, add_entries(tuple.entries, 1, Zeros(Len(points))))

\* The loop `for tuple_deltas in tuples` of Data::deltas from tuple k on:
\* [deltas, accum].
RECURSIVE deltas_from(_, _, _, _, _, _)
deltas_from(tuples, k, points, contours, ds, accum) ==
    IF k > Len(tuples) THEN [deltas |-> ds, accum |-> accum]
    ELSE IF tuples[k].full
    THEN deltas_from(tuples, k + 1, points, contours,
                     add_entries(tuples[k].entries, 1, ds), accum)
    ELSE LET a == tuple_accum(tuples[k], points, contours)
         IN deltas_from(tuples, k + 1, points, contours,
                [i \in 1..Len(ds) |-> [x |-> ds[i].x + a[i].x,
                                       y |-> ds[i].y + a[i].y]], a)

\* Data::deltas: the deltas buffer as returned, and the accum buffer.
deltas(tuples, points, contours) ==
    LET r == deltas_from(tuples, 1, points, contours, Zeros(Len(points)),
                         Zeros(Len(points)))
    IN [deltas |-> [i \in 1..Len(points) |->
                       [x |-> Fixed_to_i32(Fixed_round(r.deltas[i].x)),
                        y |-> Fixed_to_i32(Fixed_round(r.deltas[i].y))]],
        accum |-> r.accum]

\* What gvar_tuples yields for one glyph: per tuple the coverage and the
\* (index, x, y) entries, x and y already scaled and in 16.16.
VarIdx == 0..3
VarCoords == {[x |-> 0, y |-> 0], [x |-> 10, y |-> 4], [x |-> 20, y |-> 4],
              [x |-> 4, y |-> 20]}
PointDeltas == <<[x |-> 196608, y |-> -131072], [x |-> -98304, y |-> 262144],
                 [x |-> 196608, y |-> 458752], [x |-> 327680, y |-> -131072]>>

\* The entries of a tuple touching the points of set s, index ascending,
\* each delta multiplied by m and divided by d.
RECURSIVE EntriesOf(_, _, _, _)
EntriesOf(s, i, m, d) ==
    IF i > 3 THEN << >>
    ELSE (IF i \in s
          THEN <<[index |-> i, x |-> (At(PointDeltas, i).x * m) \div d,
                  y |-> (At(PointDeltas, i).y * m) \div d]>>
          ELSE << >>) \o EntriesOf(s, i + 1, m, d)

\* One sparse tuple over every arrangement of four points.
IupInputs ==
    [kind : {"deltas"},
     points : [1..4 -> VarCoords],
     contours : {<<3>>, <<1, 3>>},
     tuples : {<<[full |-> FALSE, entries |-> EntriesOf(s, 0, 1, 1)]>> :
                  s \in SUBSET VarIdx}]

\* Tuples summed over one arrangement: whole, half and quarter deltas.
SummedTuples ==
    {[full |-> TRUE, entries |-> EntriesOf(VarIdx, 0, 1, 1)],
     [full |-> TRUE, entries |-> EntriesOf(VarIdx, 0, 1, 2)],
     [full |-> TRUE, entries |-> EntriesOf(VarIdx, 0, 1, 4)],
     [full |-> FALSE, entries |-> EntriesOf({0, 2}, 0, 1, 4)],
     [full |-> FALSE, entries |-> EntriesOf({1}, 0, 1, 2)]}

TupleLists == UNION {[1..n -> SummedTuples] : n \in 0..MaxTuples}

SumInputs ==
    [kind : {"deltas"},
     points : {<<[x |-> 0, y |-> 0], [x |-> 10, y |-> 4], [x |-> 20, y |-> 4],
                [x |-> 4, y |-> 20]>>},
     contours : {<<3>>},
     tuples : TupleLists]

\* Data::deltas(coords, glyph_id, points, tags, contours, accum, deltas)
Deltas ==
    /\ varin.kind = "deltas"
    /\ varout.op = "none"
    /\ LET r == deltas(varin.tuples, varin.points, varin.contours)
       IN varout' = [op |-> "deltas", value |-> r.deltas, accum |-> r.accum]
    /\ UNCHANGED <<varin, notVar>>

\* Rounding the entry of each tuple as it is added.
RECURSIVE add_rounded(_, _, _)
add_rounded(es, k, ds) ==
    IF k > Len(es) THEN ds
    ELSE LET e == es[k]
         IN add_rounded(es, k + 1,
                IF e.index < Len(ds)
                THEN SetAt(ds, e.index,
                         [x |-> At(ds, e.index).x
                                  + Fixed_to_i32(Fixed_round(e.x)),
                          y |-> At(ds, e.index).y
                                  + Fixed_to_i32(Fixed_round(e.y))])
                ELSE ds)

\* Data::composite_deltas: the loop over the tuples from tuple k on.
RECURSIVE composite_deltas(_, _, _)
composite_deltas(tuples, k, ds) ==
    IF k > Len(tuples) THEN ds
    ELSE composite_deltas(tuples, k + 1, add_rounded(tuples[k].entries, 1, ds))

\* The loop `for (index, delta, _) in deltas` of Data::cvt; cvar_tuples
\* yields the delta where gvar_tuples yields x.
RECURSIVE cvt_add(_, _, _)
cvt_add(es, k, values) ==
    IF k > Len(es) THEN values
    ELSE cvt_add(es, k + 1,
             IF es[k].index < Len(values)
             THEN SetAt(values, es[k].index,
                        At(values, es[k].index) + Fixed_to_i32(es[k].x))
             ELSE values)

RECURSIVE cvt_tuples(_, _, _)
cvt_tuples(tuples, k, values) ==
    IF k > Len(tuples) THEN values
    ELSE cvt_tuples(tuples, k + 1, cvt_add(tuples[k].entries, 1, values))

\* Data::cvt(scale, coords, values) on an empty values vector; scale = 0
\* stands for None.
cvt(entries_i16, scale, tuples) ==
    LET varied == cvt_tuples(tuples, 1, entries_i16)
    IN IF scale # 0 THEN [i \in 1..Len(varied) |-> mul(varied[i], scale)]
       ELSE varied

CompositeInputs == [kind : {"composite"}, tuples : TupleLists]

CvtInputs ==
    [kind : {"cvt"}, cvt : {<<100, -50, 7, 0>>}, scale : {0, 32768},
     tuples : TupleLists]

\* Data::composite_deltas(coords, glyph_id, deltas) for four components.
CompositeDeltas ==
    /\ varin.kind = "composite"
    /\ varout.op = "none"
    /\ varout' = [op |-> "composite_deltas",
                  value |-> composite_deltas(varin.tuples, 1, Zeros(4))]
    /\ UNCHANGED <<varin, notVar>>

\* Data::cvt(scale, coords, values)
Cvt ==
    /\ varin.kind = "cvt"
    /\ varout.op = "none"
    /\ varout' = [op |-> "cvt",
                  value |-> cvt(varin.cvt, varin.scale, varin.tuples)]
    /\ UNCHANGED <<varin, notVar>>

InitVar ==
    /\ varin \in MetricInputs \cup IupInputs \cup SumInputs
                  \cup CompositeInputs \cup CvtInputs
    /\ varout = NoVarOut

IdleVar ==
    /\ varin = [kind |-> "none"]
    /\ varout = NoVarOut

NextVar == AdvanceWidth \/ Deltas \/ CompositeDeltas \/ Cvt

----------------------------------------------------------------------------
(* Table directory: container/mod.rs                                       *)

Tags == 1..NumTags

\* Table records of a font file: the table of tag t lies at offset 100 t
\* and is 10 t bytes long.
TableRecord(t) == [tag |-> t, offset |-> 100 * t, len |-> 10 * t]

\* The directories of at most MaxTables records, sorted by tag.
RECURSIVE Ascending(_)
Ascending(set) ==
    IF set = {} THEN << >>
    ELSE LET m == CHOOSE m \in set : \A n \in set : m <= n
         IN <<TableRecord(m)>> \o Ascending(set \ {m})

Directories ==
    {Ascending(set) : set \in {t \in SUBSET Tags : Cardinality(t) <= MaxTables}}

\* No scaler has been built and the metadata cache holds nothing.
NoBuilt == [direct |-> [op |-> "none"], cached |-> [op |-> "none"],
            entry |-> [op |-> "none"]]

\* FontRef::get_by_tag(tag), lines 129-135: the loop is entered.
GetByTag ==
    /\ tagret = "idle"
    /\ tagret' = "running"
    /\ tag_lo' = 0
    /\ tag_hi' = Len(tagdir)
    /\ UNCHANGED <<tagdir, tagreq, iters, built, notContainer>>

\* Lines 136-158: one turn of `while lo < hi`. The Equal arm builds the
\* TableRecord, materializes it and drops the result; lo and hi stay.
GetByTagLoop ==
    /\ tagret = "running"
    /\ tag_lo < tag_hi
    /\ iters < MaxIters
    /\ iters' = iters + 1
    /\ LET i == (tag_lo + tag_hi) \div 2
           table_tag == tagdir[i + 1].tag
       IN IF tagreq < table_tag
          THEN tag_hi' = i /\ tag_lo' = tag_lo
          ELSE IF tagreq > table_tag
          THEN tag_lo' = i + 1 /\ tag_hi' = tag_hi
          ELSE UNCHANGED <<tag_lo, tag_hi>>
    /\ UNCHANGED <<tagdir, tagreq, tagret, built, notContainer>>

\* Line 160: the loop is left and None is returned.
GetByTagNone ==
    /\ tagret = "running"
    /\ tag_lo >= tag_hi
    /\ tagret' = "None"
    /\ UNCHANGED <<tagdir, tagreq, tag_lo, tag_hi, iters, built, notContainer>>

InitContainer ==
    /\ tagdir \in Directories
    /\ tagreq \in Tags
    /\ tag_lo = 0
    /\ tag_hi = 0
    /\ tagret = "idle"
    /\ iters = 0
    /\ built = NoBuilt

\* No font is looked at.
IdleContainer ==
    /\ tagdir = << >>
    /\ tagreq = 1
    /\ tag_lo = 0
    /\ tag_hi = 0
    /\ tagret = "idle"
    /\ iters = 0
    /\ built = NoBuilt

NextTag == GetByTag \/ GetByTagLoop \/ GetByTagNone

InitSpecTag ==
    InitContainer /\ IdleCache /\ IdleGlyph /\ IdleHint /\ IdleColor /\ IdleVar

SpecTag == InitSpecTag /\ [][NextTag]_vars

----------------------------------------------------------------------------
(* Scaler data: font.rs, data.rs, truetype/data.rs, scaler.rs              *)

COLR == 1129270354   \* Tag::new(b"COLR")
CPAL == 1129333068   \* Tag::new(b"CPAL")
CVT == 1668707360    \* Tag::new(b"cvt ")
FVAR == 1719034226   \* Tag::new(b"fvar")
GLYF == 1735162214   \* Tag::new(b"glyf")
HMTX == 1752003704   \* Tag::new(b"hmtx")
LOCA == 1819239265   \* Tag::new(b"loca")

FontTags == {COLR, CPAL, CVT, FVAR, GLYF, HMTX, LOCA}

\* The font files under test: any subset of FontTags, the records sorted by
\* tag; the k-th tag of FontTags has its table at offset 200 k, 10 k bytes
\* long, so the tables lie behind the directory in tag order.
RECURSIVE FontDirectory(_)
FontDirectory(set) ==
    IF set = {} THEN << >>
    ELSE LET m == CHOOSE m \in set : \A n \in set : m <= n
             k == Cardinality({u \in FontTags : u <= m})
         IN <<[tag |-> m, offset |-> 200 * k, len |-> 10 * k]>>
            \o FontDirectory(set \ {m})

FontFiles == {FontDirectory(set) : set \in SUBSET FontTags}

\* font.data.len(): the file ends with its last table (or, without tables,
\* with the 12-byte header).
data_len(dir) ==
    IF dir = << >> THEN 12 ELSE dir[Len(dir)].offset + dir[Len(dir)].len

\* Option<&[u8]>: a byte window [start, end) of the file.
NoSlice == [some |-> FALSE, start |-> 0, end |-> 0]

\* <[u8]>::get(start..end)
data_get(dir, start, end) ==
    IF start <= end /\ end <= data_len(dir)
    THEN [some |-> TRUE, start |-> start, end |-> end]
    ELSE NoSlice

\* unwrap_or_default() of an Option<&[u8]>: the empty slice.
unwrap_or_default(slice) ==
    IF slice.some THEN slice ELSE [some |-> TRUE, start |-> 0, end |-> 0]

\* FontRef::find_record(tag): binary search of the directory.
RECURSIVE find_record_loop(_, _, _, _)
find_record_loop(dir, tag, lo, hi) ==
    IF ~(lo < hi) THEN [some |-> FALSE, offset |-> 0, len |-> 0]
    ELSE LET i == (lo + hi) \div 2
             table_tag == dir[i + 1].tag
         IN IF tag < table_tag THEN find_record_loop(dir, tag, lo, i)
            ELSE IF tag > table_tag THEN find_record_loop(dir, tag, i + 1, hi)
            ELSE [some |-> TRUE, offset |-> dir[i + 1].offset,
                  len |-> dir[i + 1].len]

find_record(dir, tag) == find_record_loop(dir, tag, 0, Len(dir))

\* TableProvider::table_data for FontRef: the window of the record.
table_data(dir, tag) ==
    LET r == find_record(dir, tag)
    IN IF r.some THEN data_get(dir, r.offset, r.offset + r.len) ELSE NoSlice

\* TableOffsets::new: glyf, loca and hmtx are required; an offset of 0
\* stands for a missing optional table.
TableOffsets_new(dir) ==
    LET glyf == find_record(dir, GLYF)
        loca == find_record(dir, LOCA)
        hmtx == find_record(dir, HMTX)
        find_range(tag) ==
            LET record == find_record(dir, tag)
            IN IF record.some
               THEN <<record.offset, record.offset + record.len>>
               ELSE <<0, 0>>
    IN [some |-> glyf.some /\ loca.some /\ hmtx.some,
        glyf |-> glyf.offset,
        loca |-> loca.offset,
        cvt |-> find_range(CVT),
        hmtx |-> hmtx.offset]

\* TableData::from_font: `get` takes the file from the offset to its end.
TableData_from_font(dir, offsets) ==
    LET get_from(offset) ==
            IF offset = 0 THEN NoSlice
            ELSE data_get(dir, offset, data_len(dir))
        get_range(range) ==
            IF range[1] = 0 THEN NoSlice
            ELSE data_get(dir, range[1], range[2])
        glyf == get_from(offsets.glyf)
        loca == get_from(offsets.loca)
        hmtx == get_from(offsets.hmtx)
    IN [some |-> glyf.some /\ loca.some /\ hmtx.some,
        glyf |-> glyf,
        loca |-> loca,
        cvt |-> unwrap_or_default(get_range(offsets.cvt)),
        hmtx |-> hmtx]

\* TableData::from_table_provider: glyf and loca are required.
TableData_from_table_provider(dir) ==
    LET glyf == table_data(dir, GLYF)
        loca == table_data(dir, LOCA)
    IN [some |-> glyf.some /\ loca.some,
        glyf |-> glyf,
        loca |-> loca,
        cvt |-> unwrap_or_default(table_data(dir, CVT)),
        hmtx |-> unwrap_or_default(table_data(dir, HMTX))]

\* SimpleData::None, Option<ColorData>::None, Option<VarData>::None
NoTables == [some |-> FALSE, glyf |-> NoSlice, loca |-> NoSlice,
             cvt |-> NoSlice, hmtx |-> NoSlice]
NoColor == [some |-> FALSE, colr |-> NoSlice, cpal |-> NoSlice]
NoVar == [some |-> FALSE, fvar |-> NoSlice]

\* Data::default()
Data_default == [op |-> "built", simple |-> NoTables, color |-> NoColor,
                 var |-> NoVar]

\* data::Cached::new: the offsets kept in the metadata cache.
data_Cached_new(dir) ==
    LET colr == find_record(dir, COLR)
        cpal == find_record(dir, CPAL)
        fvar == find_record(dir, FVAR)
    IN [op |-> "cached",
        simple |-> TableOffsets_new(dir),
        color |-> [some |-> colr.some /\ cpal.some, colr |-> colr.offset,
                   cpal |-> cpal.offset],
        var |-> [some |-> fvar.some, fvar |-> fvar.offset]]

\* data::Data::from_cached(..).unwrap_or_default()
Data_from_cached(dir, cached) ==
    LET tables == TableData_from_font(dir, cached.simple)
    IN IF cached.simple.some /\ ~tables.some THEN Data_default
       ELSE [op |-> "built",
             simple |-> IF cached.simple.some THEN tables ELSE NoTables,
             color |-> IF cached.color.some
                       THEN [some |-> TRUE,
                             colr |-> data_get(dir, cached.color.colr,
                                               data_len(dir)),
                             cpal |-> data_get(dir, cached.color.cpal,
                                               data_len(dir))]
                       ELSE NoColor,
             var |-> IF cached.var.some
                     THEN [some |-> TRUE,
                           fvar |-> data_get(dir, cached.var.fvar,
                                             data_len(dir))]
                     ELSE NoVar]

\* data::Data::from_table_provider(..).unwrap_or_default()
Data_from_table_provider(dir) ==
    LET tables == TableData_from_table_provider(dir)
        colr == table_data(dir, COLR)
        cpal == table_data(dir, CPAL)
        fvar == table_data(dir, FVAR)
    IN [op |-> "built",
        simple |-> IF tables.some THEN tables ELSE NoTables,
        color |-> IF colr.some /\ cpal.some
                  THEN [some |-> TRUE, colr |-> colr, cpal |-> cpal]
                  ELSE NoColor,
        var |-> IF fvar.some THEN [some |-> TRUE, fvar |-> fvar] ELSE NoVar]

\* Context::new_scaler(provider)
NewScaler ==
    /\ built' = [built EXCEPT !.direct = Data_from_table_provider(tagdir)]
    /\ UNCHANGED <<tagdir, tagreq, tag_lo, tag_hi, tagret, iters,
                   notContainer>>

\* Context::new_scaler_with_id(font, font_id) for the one font and id of the
\* behaviour: Cache::get returns the entry stored for the id or, on a miss,
\* stores and returns data::Cached::new(font).
NewScalerWithId ==
    /\ LET cached == IF built.entry.op = "cached" THEN built.entry
                     ELSE data_Cached_new(tagdir)
       IN built' = [built EXCEPT !.entry = cached,
                                 !.cached = Data_from_cached(tagdir, cached)]
    /\ UNCHANGED <<tagdir, tagreq, tag_lo, tag_hi, tagret, iters,
                   notContainer>>

InitBuild ==
    /\ tagdir \in FontFiles
    /\ tagreq = 1
    /\ tag_lo = 0
    /\ tag_hi = 0
    /\ tagret = "idle"
    /\ iters = 0
    /\ built = NoBuilt

NextBuild == NewScaler \/ NewScalerWithId

InitSpecBuild ==
    InitBuild /\ IdleCache /\ IdleGlyph /\ IdleHint /\ IdleColor /\ IdleVar

SpecBuild == InitSpecBuild /\ [][NextBuild]_vars

InitSpecVar ==
    InitVar /\ IdleCache /\ IdleGlyph /\ IdleHint /\ IdleColor /\ IdleContainer

SpecVar == InitSpecVar /\ [][NextVar]_vars

InitSpecCache == InitCache /\ IdleGlyph /\ IdleHint /\ IdleColor /\ IdleVar
    /\ IdleContainer

SpecCache == InitSpecCache /\ [][NextCache]_vars

NextGlyph == ScalerGlyph \/ LoadGlyph

InitSpecGlyph == InitGlyph /\ IdleCache /\ IdleHint /\ IdleColor /\ IdleVar
    /\ IdleContainer

NextHint == PrepareWithId \/ PrepareAnonymous

InitSpecHint == InitHint /\ IdleCache /\ IdleGlyph /\ IdleColor /\ IdleVar
    /\ IdleContainer

SpecHint == InitSpecHint /\ [][NextHint]_vars

NextHintRun == PrepareFirstFont \/ Hint

SpecHintRun == InitSpecHint /\ [][NextHintRun]_vars

NextHintEvict == PrepareStatic

InitSpecHintEvict ==
    InitHintEvict /\ IdleCache /\ IdleGlyph /\ IdleColor /\ IdleVar
    /\ IdleContainer

SpecHintEvict == InitSpecHintEvict /\ [][NextHintEvict]_vars

NextColor ==
    \/ ColorGlyph
    \/ DepthCap
    \/ PalettePanic
    \/ PaintFill
    \/ PaintOther
    \/ PaintLayers
    \/ PaintGlyph
    \/ PaintGlyphEnd
    \/ PaintColorGlyph
    \/ PaintColorGlyphEnd
    \/ PaintTransform
    \/ PaintTransformEnd
    \/ PaintComposite
    \/ PaintCompositeBlend
    \/ PaintCompositeEnd

InitSpecColor ==
    InitColor /\ IdleCache /\ IdleHint /\ IdleVar /\ IdleContainer

SpecColor == InitSpecColor /\ [][NextColor]_vars

SpecGlyph == InitSpecGlyph /\ [][NextGlyph]_vars

----------------------------------------------------------------------------
\* C1: a get() that hits returns exactly the value stored by the most recent
\* miss for the same id (the very store made by that miss, so never the
\* value stored for another id).
C1_HitReturnsLastMiss ==
    got.kind = "hit" =>
        /\ got.value = stored[got.id].value
        /\ got.stamp = stored[got.id].stamp

\* C1 witness: an id is hit after a different id was stored in between and
\* the two ids hold different values.
C1_Witness ==
    /\ got.kind = "hit"
    /\ \E o \in Ids \ {got.id} :
          /\ stored[o].stamp > stored[got.id].stamp
          /\ stored[o].value # stored[got.id].value

\* C2: a miss on a full cache overwrites the slot of the id that was
\* requested least recently by get (hits and misses both count).
C2_EvictsLeastRecentlyUsed ==
    (got.kind = "miss" /\ got.evicted # NoId) => got.evicted \in got.lru

\* C3: when the contour decoder fails on a contour of the glyph,
\* Scaler::glyph returns None and leaves no path, point or verb of that
\* glyph in the output.
C3_DecodeFailureAbortsGlyph ==
    (ret.op = "glyph" /\ ~ret.decoded) =>
        /\ ~ret.some
        /\ glyph.paths = << >>
        /\ glyph.points = << >>
        /\ glyph.verbs = << >>

\* Points consumed by a verb sequence, as Path::elements advances its index.
RECURSIVE Consumed(_)
Consumed(vs) ==
    IF vs = << >> THEN 0
    ELSE (CASE Head(vs) = "MoveTo" -> 1
            [] Head(vs) = "LineTo" -> 1
            [] Head(vs) = "QuadTo" -> 2
            [] Head(vs) = "CurveTo" -> 3
            [] OTHER -> 0) + Consumed(Tail(vs))

PathVerbs(g, p) == SubSeq(g.verbs, p.verbs.start + 1, p.verbs.end)

\* C10: in every path recorded in the Glyph the point range holds exactly
\* #MoveTo + #LineTo + 2*#QuadTo + 3*#CurveTo points of its verb range, and
\* both ranges lie inside the glyph's buffers.
C10_PathLockStep ==
    \A i \in 1..Len(glyph.paths) :
        LET p == glyph.paths[i] IN
        /\ p.points.start <= p.points.end
        /\ p.points.end <= Len(glyph.points)
        /\ p.verbs.start <= p.verbs.end
        /\ p.verbs.end <= Len(glyph.verbs)
        /\ p.points.end - p.points.start = Consumed(PathVerbs(glyph, p))

\* C10 witness: a second path, not starting at 0, that holds a QuadTo, and
\* a first path that holds a CurveTo.
C10_Witness ==
    /\ Len(glyph.paths) = 2
    /\ glyph.paths[2].points.start > 0
    /\ \E k \in 1..Len(PathVerbs(glyph, glyph.paths[2])) :
          PathVerbs(glyph, glyph.paths[2])[k] = "QuadTo"
    /\ \E k \in 1..Len(PathVerbs(glyph, glyph.paths[1])) :
          PathVerbs(glyph, glyph.paths[1])[k] = "CurveTo"

\* First and last point index (0-based) of contour c of an outline, as
\* fill_outline derives them from the contour-end array.
ContourLo(o, c) == IF c > 0 THEN At(o.contours, c - 1) + 1 ELSE 0
ContourHi(o, c) == At(o.contours, c)

\* The contour-end array delimits non-empty runs inside the point array.
ContoursInRange(o) ==
    \A c \in 0..(Len(o.contours) - 1) :
        ContourLo(o, c) <= ContourHi(o, c) /\ ContourHi(o, c) < Len(o.points)

\* The adjacency rules on the tags lo..hi of one contour, read from point i
\* on: a cubic point is followed by a second cubic point, and the pair by an
\* on-curve point unless the pair ends the contour (the wrapped start); a
\* conic point is not followed by a cubic point.
RECURSIVE AdjacentFrom(_, _, _)
AdjacentFrom(tags, i, hi) ==
    IF i > hi THEN TRUE
    ELSE IF TagAt(tags, i) = ON THEN AdjacentFrom(tags, i + 1, hi)
    ELSE IF TagAt(tags, i) = CONIC
    THEN /\ (i + 1 <= hi => TagAt(tags, i + 1) # CUBIC)
         /\ AdjacentFrom(tags, i + 1, hi)
    ELSE /\ i + 1 <= hi
         /\ TagAt(tags, i + 1) = CUBIC
         /\ (i + 2 <= hi => TagAt(tags, i + 2) = ON)
         /\ AdjacentFrom(tags, i + 2, hi)

AdjacencyRules(o, c) ==
    /\ TagAt(o.tags, ContourLo(o, c)) # CUBIC
    /\ AdjacentFrom(o.tags, ContourLo(o, c), ContourHi(o, c))

\* C11: when a contour of the decoded outline violates the adjacency rules
\* (a lone cubic point, a cubic pair not followed by an on-curve point or
\* the wrapped start, a cubic point after a conic run, a cubic start), the
\* contour decoder reports a decode failure.
C11_BadAdjacencyFails ==
    (/\ ret.op = "glyph"
     /\ ret.some
     /\ ContoursInRange(outlines[ret.gid])
     /\ \E c \in 0..(Len(outlines[ret.gid].contours) - 1) :
           ~AdjacencyRules(outlines[ret.gid], c))
    => ~ret.decoded

\* The verbs of contours c.. of an outline whose points are all on-curve:
\* per contour one MoveTo, a LineTo for each further point, one Close.
RECURSIVE OnCurveVerbs(_, _)
OnCurveVerbs(o, c) ==
    IF c >= Len(o.contours) THEN << >>
    ELSE <<"MoveTo">>
         \o [k \in 1..(ContourHi(o, c) - ContourLo(o, c)) |-> "LineTo"]
         \o <<"Close">>
         \o OnCurveVerbs(o, c + 1)

AllOnCurve(o) == \A i \in 1..Len(o.tags) : o.tags[i] % TAG_MASK = ON

\* C12: an outline whose contours hold only on-curve points decodes, per
\* contour of N points, to one MoveTo (the first point), N-1 LineTo (the
\* other points in order) and one Close, and nothing else.
C12_OnCurveContour ==
    (/\ ret.op = "glyph"
     /\ ret.some
     /\ ContoursInRange(outlines[ret.gid])
     /\ AllOnCurve(outlines[ret.gid]))
    => LET o == outlines[ret.gid]
           n == ContourHi(o, Len(o.contours) - 1) + 1
       IN /\ ret.decoded
          /\ glyph.verbs = OnCurveVerbs(o, 0)
          /\ glyph.points = [i \in 1..n |-> conv(o.points[i], scaled)]

\* C12 witness: a decoded outline of two on-curve contours, one of them a
\* single point and the other of two points or more.
C12_Witness ==
    /\ ret.op = "glyph"
    /\ ret.some
    /\ ContoursInRange(outlines[ret.gid])
    /\ AllOnCurve(outlines[ret.gid])
    /\ outlines[ret.gid].contours[1] = 0
    /\ Len(outlines[ret.gid].contours) = 2
    /\ Len(outlines[ret.gid].points) >= 3

\* The segments of a verb sequence vs over the points ps, from verb k and
\* point index i on, as Path::elements reads them: the set of
\* <<verb, points consumed>>.
RECURSIVE SegmentsFrom(_, _, _, _)
SegmentsFrom(vs, ps, k, i) ==
    IF k > Len(vs) THEN {}
    ELSE LET n == Consumed(<<vs[k]>>)
         IN {<<vs[k], SubSeq(ps, i, i + n - 1)>>}
            \cup SegmentsFrom(vs, ps, k + 1, i + n)

\* Pairs <<i, i+1>> (0-based) of neighbouring conic points inside one contour.
ConicPairs(o) ==
    {i \in 0..(Len(o.points) - 2) :
        /\ TagAt(o.tags, i) = CONIC
        /\ TagAt(o.tags, i + 1) = CONIC
        /\ \E c \in 0..(Len(o.contours) - 1) :
              ContourLo(o, c) <= i /\ i + 1 <= ContourHi(o, c)}

\* C13: for two neighbouring off-curve conic points p0, p1 of a decoded
\* contour the path holds a QuadTo with control point p0 whose end point is
\* the exact midpoint of p0 and p1 (twice the end point is p0 + p1), also
\* when a coordinate sum is odd or negative.
C13_ExactMidpoint ==
    (/\ ret.op = "glyph"
     /\ ret.some
     /\ ret.decoded
     /\ ContoursInRange(outlines[ret.gid]))
    => LET o == outlines[ret.gid] IN
       \A i \in ConicPairs(o) :
           LET p0 == At(o.points, i)
               p1 == At(o.points, i + 1)
           IN \E seg \in SegmentsFrom(glyph.verbs, glyph.points, 1, 1) :
                 /\ seg[1] = "QuadTo"
                 /\ seg[2][1] = conv(p0, scaled)
                 /\ seg[2][2].den = conv(p0, scaled).den
                 /\ 2 * seg[2][2].x = p0.x + p1.x
                 /\ 2 * seg[2][2].y = p0.y + p1.y

\* All coordinates of the call are zero (the default position).
AtDefault == \A i \in 1..Len(varin.coords) : varin.coords[i] = 0

\* C14 as stated: at the default position the delta of every delta-set row
\* is zero, so advance_width is the unvaried hmtx advance.
C14_DefaultDeltaIsZero ==
    (varout.op = "advance_width" /\ AtDefault)
    => (varout.delta = 0 /\ varout.value = varin.advance)

\* An axis the scalar computation takes into account: start <= peak <= end,
\* a peak other than zero, and no zero crossing.
AxisCounts(a) ==
    /\ a.start <= a.peak
    /\ a.peak <= a.end
    /\ a.peak # 0
    /\ ~(a.start < 0 /\ a.end > 0)

\* C14 amended: at the default position the delta is zero, and
\* advance_width the unvaried hmtx advance, when every region of the row
\* has at least one axis that counts.
C14_DefaultDeltaIsZeroWhenRegionsCount ==
    (/\ varout.op = "advance_width"
     /\ AtDefault
     /\ \A k \in 1..Len(varin.row) :
           \E i \in 1..Len(varin.row[k].region) :
              AxisCounts(varin.row[k].region[i]))
    => (varout.delta = 0 /\ varout.value = varin.advance)

\* C14 witness: a row of two regions or more at the default position, each
\* with an axis that counts, one of them with an axis of peak zero as well.
C14_Witness ==
    /\ varout.op = "advance_width"
    /\ AtDefault
    /\ Len(varin.row) >= 2
    /\ \A k \in 1..Len(varin.row) :
          \E i \in 1..Len(varin.row[k].region) :
             AxisCounts(varin.row[k].region[i])
    /\ \E k \in 1..Len(varin.row) :
          \E i \in 1..Len(varin.row[k].region) :
             varin.row[k].region[i].peak = 0

\* The touched points of the single sparse tuple of the call, and the
\* explicit delta of a touched point.
Touched ==
    {varin.tuples[1].entries[k].index : k \in 1..Len(varin.tuples[1].entries)}
Explicit(p) ==
    LET e == CHOOSE e \in {varin.tuples[1].entries[k] :
                              k \in 1..Len(varin.tuples[1].entries)} :
                 e.index = p
    IN [x |-> e.x, y |-> e.y]

\* The nearest touched point before and after p around the contour lo..hi.
RECURSIVE PrevTouched(_, _, _)
PrevTouched(p, lo, hi) ==
    LET q == IF p = lo THEN hi ELSE p - 1
    IN IF q \in Touched THEN q ELSE PrevTouched(q, lo, hi)
RECURSIVE NextTouched(_, _, _)
NextTouched(p, lo, hi) ==
    LET q == IF p = hi THEN lo ELSE p + 1
    IN IF q \in Touched THEN q ELSE NextTouched(q, lo, hi)

Abs(n) == IF n < 0 THEN -n ELSE n

\* The delta v of an untouched point of coordinate t lies on the line
\* through (c1, d1) and (c2, d2), c1 < t < c2, up to 16 units of 2^-16.
OnLine(v, t, c1, d1, c2, d2) ==
    Abs(v * (c2 - c1) - (d1 * (c2 - t) + d2 * (t - c1))) <= 16 * (c2 - c1)

\* The rule for the delta v on one axis of an untouched point of coordinate
\* t whose neighbours have coordinates ca, cb and deltas da, db; on
\* neighbours of equal coordinate it asks for one of their deltas.
IupRule(v, t, ca, da, cb, db) ==
    IF ca = cb THEN v \in {da, db}
    ELSE LET c1 == IF ca < cb THEN ca ELSE cb
             d1 == IF ca < cb THEN da ELSE db
             c2 == IF ca < cb THEN cb ELSE ca
             d2 == IF ca < cb THEN db ELSE da
         IN IF t <= c1 THEN v = d1
            ELSE IF t >= c2 THEN v = d2
            ELSE OnLine(v, t, c1, d1, c2, d2)

\* The same rule, with the delta on neighbours of equal coordinate being
\* their common delta, or zero when their deltas differ.
IupRuleEqual(v, t, ca, da, cb, db) ==
    IF ca = cb THEN v = (IF da = db THEN da ELSE 0)
    ELSE IupRule(v, t, ca, da, cb, db)

\* The contour lo..hi has two touched points or more.
TwoTouched(o, c) ==
    Cardinality(Touched \cap ContourLo(o, c)..ContourHi(o, c)) >= 2

SparseCall ==
    /\ varout.op = "deltas"
    /\ Len(varin.tuples) = 1
    /\ ~varin.tuples[1].full

\* C15 as stated: after a sparse tuple, on a contour with two touched
\* points or more, a touched point has its explicit delta and an untouched
\* point has, per axis, the delta interpolated between its nearest touched
\* neighbours around the contour, or the delta of the neighbour on its side
\* when its coordinate is outside theirs.
C15_Iup ==
    SparseCall =>
    \A c \in 0..(Len(varin.contours) - 1) :
        TwoTouched(varin, c) =>
        \A p \in ContourLo(varin, c)..ContourHi(varin, c) :
            IF p \in Touched THEN At(varout.accum, p) = Explicit(p)
            ELSE LET a == PrevTouched(p, ContourLo(varin, c),
                                      ContourHi(varin, c))
                     b == NextTouched(p, ContourLo(varin, c),
                                      ContourHi(varin, c))
                 IN \A ax \in {"x", "y"} :
                       IupRule(At(varout.accum, p)[ax],
                               At(varin.points, p)[ax],
                               At(varin.points, a)[ax], Explicit(a)[ax],
                               At(varin.points, b)[ax], Explicit(b)[ax])

\* C15 amended: as C15, and when the two neighbours have the same original
\* coordinate on an axis the untouched point takes their common delta on
\* that axis, or zero when their deltas differ.
C15_IupEqualCoordinates ==
    SparseCall =>
    \A c \in 0..(Len(varin.contours) - 1) :
        TwoTouched(varin, c) =>
        \A p \in ContourLo(varin, c)..ContourHi(varin, c) :
            IF p \in Touched THEN At(varout.accum, p) = Explicit(p)
            ELSE LET a == PrevTouched(p, ContourLo(varin, c),
                                      ContourHi(varin, c))
                     b == NextTouched(p, ContourLo(varin, c),
                                      ContourHi(varin, c))
                 IN \A ax \in {"x", "y"} :
                       IupRuleEqual(At(varout.accum, p)[ax],
                                    At(varin.points, p)[ax],
                                    At(varin.points, a)[ax], Explicit(a)[ax],
                                    At(varin.points, b)[ax], Explicit(b)[ax])

\* C15 witness: one contour of four points with points 0 and 2 touched,
\* point 1 strictly between them on x and point 3 outside them on y.
C15_Witness ==
    /\ SparseCall
    /\ varin.contours = <<3>>
    /\ Touched = {0, 2}
    /\ At(varin.points, 0).x < At(varin.points, 1).x
    /\ At(varin.points, 1).x < At(varin.points, 2).x
    /\ At(varin.points, 3).y > At(varin.points, 0).y
    /\ At(varin.points, 3).y > At(varin.points, 2).y
    /\ At(varin.points, 0).y # At(varin.points, 2).y

\* The sum over all tuples of the 16.16 deltas given for index i on axis ax.
RECURSIVE EntrySum(_, _, _, _)
EntrySum(es, k, i, ax) ==
    IF k > Len(es) THEN 0
    ELSE (IF es[k].index = i THEN es[k][ax] ELSE 0)
         + EntrySum(es, k + 1, i, ax)
RECURSIVE TupleSum(_, _, _, _)
TupleSum(tuples, k, i, ax) ==
    IF k > Len(tuples) THEN 0
    ELSE EntrySum(tuples[k].entries, 1, i, ax) + TupleSum(tuples, k + 1, i, ax)

\* The nearest integer of a 16.16 sum.
Nearest(s) == (s + 32768) \div 65536

\* C16: point deltas (tuples of full coverage), component deltas and
\* control values are the sum of all tuples' 16.16 deltas rounded once,
\* after the last tuple.
C16_RoundedOnce ==
    /\ (varout.op = "deltas" /\ \A k \in 1..Len(varin.tuples) :
                                    varin.tuples[k].full)
       => \A i \in VarIdx : \A ax \in {"x", "y"} :
             At(varout.value, i)[ax] = Nearest(TupleSum(varin.tuples, 1, i, ax))
    /\ varout.op = "composite_deltas"
       => \A i \in VarIdx : \A ax \in {"x", "y"} :
             At(varout.value, i)[ax] = Nearest(TupleSum(varin.tuples, 1, i, ax))
    /\ (varout.op = "cvt" /\ varin.scale = 0)
       => \A i \in VarIdx :
             At(varout.value, i)
                 = At(varin.cvt, i) + Nearest(TupleSum(varin.tuples, 1, i, "x"))

\* C4: for a font with at least one variation axis, prepare() does not hit
\* a size entry whose stored coordinates differ from the request's.
C4_NoHitOnOtherCoords ==
    (prep.font_id # None /\ prep.axis_count >= 1 /\ prep.size_hit) =>
        prep.hit_coords = prep.coords

\* C5: once prepare() has reported no slot because a program failed, every
\* later prepare() with the same font id, data, coordinates, scale and mode
\* reports no slot as well.
C5_FailureIsPermanent ==
    (prep.was_failed /\ prep.result # "panic") => prep.result = "None"

\* C6: a prepare() without font id completes on the uncached entries alone:
\* it leaves both pools as they were and, unless a program fails or hinting
\* is off, returns the Uncached slot.
C6_AnonymousUsesUncachedSlot ==
    (prep.result # "none" /\ prep.font_id = None) =>
        /\ prep.result \in {"Uncached", "None"}
        /\ prep.pools_kept

\* C7: a prepare() with a font id runs the font program once on a font
\* pool miss and not on a hit, runs the size program once on a size pool
\* miss and not on a hit, and so only hits size entries whose size program
\* has been executed.
C7_ProgramsRunOncePerMiss ==
    (prep.font_id # None /\ prep.result \in {"Cached", "None"}) =>
        /\ prep.fpgm_runs = (IF prep.font_hit THEN 0 ELSE 1)
        /\ prep.prep_runs = (IF prep.size_hit THEN 0 ELSE 1)
        /\ (prep.size_hit => prep.hit_ran)

\* C8: colour paint evaluation ends on every paint graph, cyclic ones
\* included: no paint node is interpreted at a recursion depth above the
\* cap of 32, the evaluation makes no more load_color calls than the
\* depth-capped unfolding of the graph has nodes, and while it runs the
\* innermost call is at a point from which its arm continues.
C8_PaintEvaluationTerminates ==
    /\ maxdepth <= MaxDepth
    /\ Len(stack) <= MaxDepth + 2
    /\ ncalls <= Work(paints)
    /\ color_ret = "running" =>
          /\ stack # << >>
          /\ \/ Top.pc = "call"
             \/ <<paints[Top.node].kind, Top.pc>> \in
                   {<<"Layers", "layer">>, <<"Glyph", "pop">>,
                    <<"ColorGlyph", "ret">>, <<"Transform", "pop">>,
                    <<"Composite", "blend">>, <<"Composite", "end">>}

\* C8 witness: a cyclic graph was cut at the cap and the evaluation ended.
C8_Witness ==
    /\ color_ret \in {"Some", "None"}
    /\ maxdepth = MaxDepth
    /\ ncalls = Work(paints)
    /\ \E n \in Nodes : n \in ReachFrom(paints, {Children(paints[n])[k] :
                                   k \in 1..Len(Children(paints[n]))})

\* The closing command of an opening command, "" for the others.
Closer(op) ==
    CASE op = "PushTransform" -> "PopTransform"
      [] op = "PushLayer" -> "PopLayer"
      [] op = "BeginBlend" -> "EndBlend"
      [] op = "PushClip" -> "PopClip"
      [] OTHER -> ""

IsCloser(op) == op \in {"PopTransform", "PopLayer", "EndBlend", "PopClip"}

\* The closers still owed after the commands cs[k..], innermost last, when
\* the closers open are owed before them; <<"bad">> once a closer came
\* that is not the innermost owed one.
RECURSIVE OwedFrom(_, _, _)
OwedFrom(cs, k, open) ==
    IF k > Len(cs) \/ open = <<"bad">> THEN open
    ELSE LET c == cs[k].op
             top == Len(open)
         IN IF IsCloser(c)
            THEN IF top > 0 /\ open[top] = c
                 THEN OwedFrom(cs, k + 1, SubSeq(open, 1, top - 1))
                 ELSE <<"bad">>
            ELSE IF Closer(c) # ""
            THEN OwedFrom(cs, k + 1, Append(open, Closer(c)))
            ELSE OwedFrom(cs, k + 1, open)

Owed(cs) == OwedFrom(cs, 1, << >>)

\* C9: the command stream is well nested: no Pop/End comes without its
\* own Push/Begin open, and when the evaluation has ended every Push/Begin
\* has been closed by the Pop/End of its kind.
C9_CommandsWellNested ==
    /\ Owed(glyph.commands) # <<"bad">>
    /\ color_ret \in {"Some", "None"} => Owed(glyph.commands) = << >>

\* C9 witness: an evaluation that was cut by the depth cap inside a
\* Transform and ended with transforms, clips and layers in its stream.
C9_Witness ==
    /\ color_ret \in {"Some", "None"}
    /\ maxdepth = MaxDepth
    /\ \E k \in 1..Len(glyph.commands) : glyph.commands[k].op = "PopTransform"
    /\ \E k \in 1..Len(glyph.commands) : glyph.commands[k].op = "PopClip"


\* C17: the step that evaluates a Solid, LinearGradient, RadialGradient or
\* SweepGradient paint appends exactly one Fill command to the glyph's
\* commands, and nothing else.
C17_FillPaintEmitsOneFill ==
    [][(Entering("Fill") \/ Entering("SweepGradient"))
       => glyph'.commands = Append(glyph.commands, Command("Fill", 0))]_vars

\* C18: colour glyph evaluation never panics on palette data: when neither
\* the requested palette nor palette 0 can be read, color_glyph ends with
\* no result.
C18_NoPanicOnBadPalette ==
    /\ color_ret # "panic"
    /\ (color_ret = "Some" /\ ncalls > 0) => pal_resolves

\* C19: hint() on a composite sub-glyph hands the VM the contour ends of
\* contours[contour_base..] minus point_base, and leaves every element of
\* contours as it was before the call.
C19_RebaseIsExact ==
    (hinted.op = "hint" /\ hinted.is_composite) =>
        /\ ~hinted.overflow
        /\ hinted.zone =
              [k \in 1..(Len(hinted.before) - hinted.contour_base) |->
                  hinted.before[hinted.contour_base + k] - hinted.point_base]
        /\ hinted.after = hinted.before

\* C19 witness: a composite sub-glyph of two contours that starts after the
\* first contour, at a point index other than zero.
C19_Witness ==
    /\ hinted.op = "hint"
    /\ hinted.is_composite
    /\ hinted.point_base > 0
    /\ hinted.contour_base = 1
    /\ Len(hinted.before) = 3

\* C20: the font metadata cache, the hint-cache font pool and the
\* hint-cache size pool each hold at most max_entries entries, for every
\* max_entries, 0 and 1 included.
C20_CapacityBound ==
    /\ Len(entries) <= max_entries
    /\ Len(fonts) <= hint_max_entries
    /\ Len(sizes) <= hint_max_entries

\* The entry a prepare() step wrote in a pool: the one at the index found.
LowestEpoch(pool, index) ==
    \A j \in 1..Len(pool) : pool[index + 1].epoch <= pool[j].epoch

OthersKept(old, new, index) ==
    /\ Len(new) = Len(old)
    /\ \A j \in 1..Len(old) : j # index + 1 => new[j] = old[j]

\* C21: a prepare() that misses on a full font pool or a full size pool
\* overwrites the entry whose epoch is smallest and leaves every other
\* entry as it was, and every entry a prepare() hits or creates carries the
\* epoch of that call, so the smallest epoch is the least recently touched.
C21_EvictsSmallestEpoch ==
    [][(epoch' = epoch + 1 /\ hint_max_entries > 0 /\ prep'.font_id # None)
       => /\ fonts'[prep'.font_index + 1].epoch = epoch'
          /\ sizes'[prep'.size_index + 1].epoch = epoch'
          /\ (~prep'.font_hit /\ prep'.font_full)
                => /\ LowestEpoch(fonts, prep'.font_index)
                   /\ OthersKept(fonts, fonts', prep'.font_index)
          /\ (~prep'.size_hit /\ prep'.size_full)
                => /\ LowestEpoch(sizes, prep'.size_index)
                   /\ OthersKept(sizes, sizes', prep'.size_index)]_vars

\* Both pools hold two entries and the prepare() just made evicted the
\* second of each, the first having been hit after the second was created.
C21_Witness ==
    /\ hint_max_entries = 2
    /\ ~prep.font_hit /\ prep.font_full /\ prep.font_index = 1
    /\ ~prep.size_hit /\ prep.size_full /\ prep.size_index = 1
    /\ fonts[1].epoch < epoch
    /\ sizes[1].epoch < epoch

\* C22: every get() call, hit or miss, increments the recency counter, so
\* the value it writes to the slot is above the value written by the call
\* before it.
C22_SerialGrowsOnEveryGet ==
    [][(calls' = calls + 1 /\ calls > 0)
       => (serial' = serial + 1 /\ got'.written > got.written)]_vars

\* C23: when a load_color call has exceeded the depth cap during an
\* evaluation, color_glyph does not return Some(glyph) for it.
C23_DepthCapFailureReported == capped => color_ret # "Some"

\* C24: the twilight points hint() presents to the VM for a size entry, in
\* each of the unscaled, original and points arrays, are those the programs
\* run for that same entry left in that array.
C24_TwilightPerSizeEntry ==
    hinted.op = "hint" =>
        /\ hinted.twilight.unscaled = Mark(hinted.entry, "unscaled")
        /\ hinted.twilight.original = Mark(hinted.entry, "original")
        /\ hinted.twilight.points = Mark(hinted.entry, "points")

\* C25: a get() that misses for a font from which no metadata can be
\* extracted (no outline, colour or variation tables) leaves the slots as
\* they were: nothing is stored for the id and nothing is evicted.
C25_FailedExtractionNotStored ==
    [][(calls' = calls + 1 /\ got'.kind = "miss" /\ got'.value = NoCached)
       => entries' = entries]_vars

\* C26: a child paint that PaintRef::get does not recognise (NoPaint) is
\* skipped as a success and its siblings are still evaluated: a Composite
\* whose backdrop is recognised evaluates that backdrop whatever its source
\* is, and a Layers paint goes on to the next layer.
C26_UnrecognizedPaintSkipped ==
    [][/\ (Entering("Composite") /\ paints[Top.node].backdrop # NoPaint)
            => /\ Len(stack') = Len(stack) + 1
               /\ stack'[Len(stack')].node = paints[Top.node].backdrop
       /\ (Entering("Layers") /\ paints[Top.node].layers[1] = NoPaint)
            => /\ Len(stack') = Len(stack)
               /\ stack'[Len(stack')].i = 1]_vars

\* The touched points of contour c.
TouchedIn(o, c) == Touched \cap ContourLo(o, c)..ContourHi(o, c)

\* C27: after a sparse tuple, every point of a contour without a touched
\* point has the delta zero, and every point of a contour with exactly one
\* touched point has that point's delta on both axes.
C27_IupDegenerate ==
    SparseCall =>
    \A c \in 0..(Len(varin.contours) - 1) :
        \A p \in ContourLo(varin, c)..ContourHi(varin, c) :
            /\ TouchedIn(varin, c) = {} => At(varout.accum, p) = PointZero
            /\ \A t \in TouchedIn(varin, c) :
                  TouchedIn(varin, c) = {t}
                      => At(varout.accum, p) = Explicit(t)

\* C27 witness: the first contour has no touched point, the second has one,
\* which is not its first point, and the points differ on both axes.
C27_Witness ==
    /\ SparseCall
    /\ varin.contours = <<1, 3>>
    /\ Touched = {3}
    /\ At(varin.points, 2) # At(varin.points, 3)
    /\ At(varout.accum, 2) = Explicit(3)
    /\ At(varout.accum, 0) = PointZero

\* The directory holds a record with the requested tag.
HasTag == \E k \in 1..Len(tagdir) : tagdir[k].tag = tagreq

\* C28: get_by_tag ends, within one loop turn per directory record, and
\* when it has ended it has returned the table if the directory holds the
\* tag and None only if it does not.
C28_GetByTagFindsTable ==
    /\ iters <= Len(tagdir)
    /\ tagret = "None" => ~HasTag
    /\ tagret = "Some" => HasTag

\* The 0-based indices of the points that lie in a contour of o.
PointsInContours(o) ==
    {i \in 0..(Len(o.points) - 1) :
        \E c \in 0..(Len(o.contours) - 1) :
            ContourLo(o, c) <= i /\ i <= ContourHi(o, c)}

\* The segment seg = <<verb, points>> has p as the point it moves or draws
\* to, or as one of its control points.
EndsAt(seg, p) == Len(seg[2]) > 0 /\ seg[2][Len(seg[2])] = p
ControlledBy(seg, p) ==
    /\ seg[1] \in {"QuadTo", "CurveTo"}
    /\ \E k \in 1..(Len(seg[2]) - 1) : seg[2][k] = p

\* C29: in a decoded glyph every on-curve input point is the point of a
\* MoveTo or the end point of a LineTo, QuadTo or CurveTo, and every
\* off-curve input point is a control point of a QuadTo or CurveTo.
C29_NoPointDropped ==
    (/\ ret.op = "glyph"
     /\ ret.some
     /\ ret.decoded
     /\ ContoursInRange(outlines[ret.gid]))
    => LET o == outlines[ret.gid]
           segs == SegmentsFrom(glyph.verbs, glyph.points, 1, 1)
       IN \A i \in PointsInContours(o) :
             LET p == conv(At(o.points, i), scaled)
             IN IF TagAt(o.tags, i) = ON
                THEN \E seg \in segs : EndsAt(seg, p)
                ELSE \E seg \in segs : ControlledBy(seg, p)

\* C30: cache transparency. Once the same font has been given to both
\* new_scaler and new_scaler_with_id, the two scalers hold the same outline,
\* colour and variation data with the same table byte windows.
C30_CacheTransparent ==
    (built.direct.op = "built" /\ built.cached.op = "built")
        => built.cached = built.direct

====
